---- MODULE Spec2Model ----
(***************************************************************************)
(* Aggregation core of the CustomerGroups page                            *)
(* (src/src/pages/CustomerGroups.jsx): row normalisation, the nested      *)
(* filter scopes and their panel locks, the categorical/numeric           *)
(* summariser, the attitude scorer and the price bucketiser.              *)
(*                                                                         *)
(* JavaScript values are tagged records, JavaScript strings are sequences *)
(* of one-character strings, and IEEE doubles are binary floating-point   *)
(* numbers with a MantBits-bit significand rounded to nearest-even.       *)
(***************************************************************************)
EXTENDS Integers, Sequences, FiniteSets, TLC

(***************************************************************************)
(* JavaScript values                                                       *)
(***************************************************************************)
Undefined == [t |-> "undefined", s |-> <<>>, n |-> 0]
Null == [t |-> "null", s |-> <<>>, n |-> 0]
NaN == [t |-> "NaN", s |-> <<>>, n |-> 0]
Str(chars) == [t |-> "string", s |-> chars, n |-> 0]
Num(k) == [t |-> "number", s |-> <<>>, n |-> k]

\* v === undefined || v === null  (also the test of ?? and of == null)
IsNullish(v) == v.t \in {"undefined", "null"}

\* Number.isFinite(v): the numbers of the model are all finite, NaN is not
NumberIsFinite(v) == v.t = "number"

\* !v
Falsy(v) ==
  \/ v.t \in {"undefined", "null", "NaN"}
  \/ v.t = "string" /\ v.s = <<>>
  \/ v.t = "number" /\ v.n = 0

(***************************************************************************)
(* Characters and strings                                                  *)
(***************************************************************************)
Digits == <<"0", "1", "2", "3", "4", "5", "6", "7", "8", "9">>
UpperLetters ==
  <<"A", "B", "C", "D", "E", "F", "G", "H", "I", "J", "K", "L", "M",
    "N", "O", "P", "Q", "R", "S", "T", "U", "V", "W", "X", "Y", "Z">>
LowerLetters ==
  <<"a", "b", "c", "d", "e", "f", "g", "h", "i", "j", "k", "l", "m",
    "n", "o", "p", "q", "r", "s", "t", "u", "v", "w", "x", "y", "z">>

IndexIn(c, tbl) ==
  IF \E i \in DOMAIN tbl : tbl[i] = c
  THEN CHOOSE i \in DOMAIN tbl : tbl[i] = c
  ELSE 0

IsDigit(c) == IndexIn(c, Digits) # 0
DigitVal(c) == IndexIn(c, Digits) - 1
\* the characters matched by \s and removed by String.prototype.trim
IsSpace(c) == c \in {" ", "\t", "\n"}

LowerChar(c) ==
  IF IndexIn(c, UpperLetters) # 0 THEN LowerLetters[IndexIn(c, UpperLetters)] ELSE c
UpperChar(c) ==
  IF IndexIn(c, LowerLetters) # 0 THEN UpperLetters[IndexIn(c, LowerLetters)] ELSE c

\* String.prototype.toLowerCase / toUpperCase
toLowerCase(s) == [i \in DOMAIN s |-> LowerChar(s[i])]
toUpperCase(s) == [i \in DOMAIN s |-> UpperChar(s[i])]

RECURSIVE TrimLeft(_)
TrimLeft(s) ==
  IF s # <<>> /\ IsSpace(Head(s)) THEN TrimLeft(Tail(s)) ELSE s

RECURSIVE TrimRight(_)
TrimRight(s) ==
  IF s # <<>> /\ IsSpace(s[Len(s)]) THEN TrimRight(SubSeq(s, 1, Len(s) - 1)) ELSE s

\* String.prototype.trim
trim(s) == TrimRight(TrimLeft(s))

\* s.replace(/[...]/g, ""): drop every character of the class
RemoveChars(s, class) == SelectSeq(s, LAMBDA c : c \notin class)

\* s.replace(/\s+/g, " "): every maximal run of white space becomes one blank
RECURSIVE CollapseSpaces(_)
CollapseSpaces(s) ==
  IF s = <<>> THEN <<>>
  ELSE IF IsSpace(Head(s))
       THEN <<" ">> \o CollapseSpaces(TrimLeft(s))
       ELSE <<Head(s)>> \o CollapseSpaces(Tail(s))

\* decimal digits of a natural number
RECURSIVE NatToChars(_)
NatToChars(k) ==
  IF k < 10 THEN <<Digits[k + 1]>>
  ELSE NatToChars(k \div 10) \o <<Digits[(k % 10) + 1]>>

\* String(v)
String(v) ==
  CASE v.t = "string" -> v.s
    [] v.t = "number" ->
         IF v.n < 0 THEN <<"-">> \o NatToChars(0 - v.n) ELSE NatToChars(v.n)
    [] v.t = "undefined" -> <<"u", "n", "d", "e", "f", "i", "n", "e", "d">>
    [] v.t = "null" -> <<"n", "u", "l", "l">>
    [] OTHER -> <<"N", "a", "N">>

RECURSIVE DigitsToNat(_)
DigitsToNat(s) ==
  IF s = <<>> THEN 0
  ELSE 10 * DigitsToNat(SubSeq(s, 1, Len(s) - 1)) + DigitVal(s[Len(s)])

AllDigits(s) == s # <<>> /\ \A i \in DOMAIN s : IsDigit(s[i])

\* The StringToNumber conversion applied by Number(string), on the strings of
\* the model (white space, an optional sign and decimal digits, or other
\* text): white space alone is 0, a signed integer literal is its value and
\* everything else is NaN.
StringToNumber(s) ==
  LET b == trim(s) IN
  IF b = <<>> THEN Num(0)
  ELSE IF AllDigits(b) THEN Num(DigitsToNat(b))
  ELSE IF Head(b) \in {"-", "+"} /\ AllDigits(Tail(b))
       THEN Num(IF Head(b) = "-" THEN 0 - DigitsToNat(Tail(b)) ELSE DigitsToNat(Tail(b)))
  ELSE NaN

\* Number(v)
Number(v) ==
  CASE v.t = "string" -> StringToNumber(v.s)
    [] v.t = "number" -> v
    [] v.t = "null" -> Num(0)
    [] OTHER -> NaN

(***************************************************************************)
(* Floating-point numbers: sg * m * 2^e with m = 0 or                      *)
(* 2^(MantBits-1) <= m < 2^MantBits, every operation rounded to            *)
(* nearest, ties to even, as IEEE 754 arithmetic is (a double has a 53-bit *)
(* significand; the model keeps MantBits bits).                            *)
(***************************************************************************)
MantBits == 16

Pow2(k) == IF k <= 0 THEN 1 ELSE 2^k

\* the number of bits of k >= 0
BitLen(k) == IF k = 0 THEN 0 ELSE CHOOSE n \in 1..31 : k \div 2^(n - 1) = 1

FZero == [nan |-> FALSE, sg |-> 1, m |-> 0, e |-> 0]
FNaN == [nan |-> TRUE, sg |-> 1, m |-> 0, e |-> 0]

\* the doubles of the model
Doubles == [nan : BOOLEAN, sg : {-1, 1}, m : Nat, e : Int]

\* sg * k * 2^e (plus a non-zero part below the last bit of k when sticky),
\* rounded to MantBits bits
FRound(sg, k, e, sticky) ==
  IF k = 0 THEN FZero
  ELSE LET bits == BitLen(k) IN
    IF bits <= MantBits
    THEN [nan |-> FALSE, sg |-> sg, m |-> k * Pow2(MantBits - bits),
          e |-> e - (MantBits - bits)]
    ELSE LET sh == bits - MantBits
             q == k \div Pow2(sh)
             r == k % Pow2(sh)
             half == Pow2(sh - 1)
             up == \/ r > half
                   \/ r = half /\ (sticky \/ q % 2 = 1)
             q2 == IF up THEN q + 1 ELSE q
         IN IF q2 = Pow2(MantBits)
            THEN [nan |-> FALSE, sg |-> sg, m |-> Pow2(MantBits - 1), e |-> e + sh + 1]
            ELSE [nan |-> FALSE, sg |-> sg, m |-> q2, e |-> e + sh]

\* the double nearest an integer
FromInt(k) == IF k < 0 THEN FRound(-1, 0 - k, 0, FALSE) ELSE FRound(1, k, 0, FALSE)

FNeg(a) == IF a.nan \/ a.m = 0 THEN a ELSE [a EXCEPT !.sg = 0 - a.sg]
\* Math.abs
FAbs(a) == IF a.nan THEN a ELSE [a EXCEPT !.sg = 1]

\* |a| < |b| for two numbers
MagLess(a, b) ==
  IF a.m = 0 THEN b.m # 0
  ELSE IF b.m = 0 THEN FALSE
  ELSE a.e < b.e \/ (a.e = b.e /\ a.m < b.m)

\* a < b (false when either is NaN)
FLess(a, b) ==
  /\ ~a.nan /\ ~b.nan
  /\ IF a.sg # b.sg THEN a.sg < b.sg /\ (a.m # 0 \/ b.m # 0)
     ELSE IF a.sg = 1 THEN MagLess(a, b) ELSE MagLess(b, a)

\* a > b
FGreater(a, b) == FLess(b, a)

\* a === b
FEq(a, b) == ~a.nan /\ ~b.nan /\ a.m = b.m /\ (a.m = 0 \/ (a.sg = b.sg /\ a.e = b.e))

\* a + b: the smaller operand is aligned with three extra bits, the bits
\* shifted out kept as a sticky last bit
FAdd(a, b) ==
  IF a.nan \/ b.nan THEN FNaN
  ELSE IF a.m = 0 THEN b
  ELSE IF b.m = 0 THEN a
  ELSE LET x == IF MagLess(a, b) THEN b ELSE a
           y == IF MagLess(a, b) THEN a ELSE b
           d == x.e - y.e
           X == x.m * 8
           Y == IF d > MantBits + 3 THEN 1
                ELSE LET w == (y.m * 8) \div Pow2(d)
                         lost == ((y.m * 8) % Pow2(d)) # 0
                     IN IF lost /\ w % 2 = 0 THEN w + 1 ELSE w
       IN IF x.sg = y.sg THEN FRound(x.sg, X + Y, x.e - 3, FALSE)
          ELSE FRound(x.sg, X - Y, x.e - 3, FALSE)

\* a - b
FSub(a, b) == FAdd(a, FNeg(b))

\* a * b: the product of the significands, its low bits kept as sticky
FMul(a, b) ==
  IF a.nan \/ b.nan THEN FNaN
  ELSE IF a.m = 0 \/ b.m = 0 THEN FZero
  ELSE LET h == MantBits \div 2
           bh == b.m \div Pow2(h)
           bl == b.m % Pow2(h)
           t == a.m * bl
           k == a.m * bh + (t \div Pow2(h))
       IN FRound(a.sg * b.sg, k, a.e + b.e + h, (t % Pow2(h)) # 0)

\* quotient bits of num / den by long division: <<quotient, remainder>>
RECURSIVE LongDiv(_, _, _, _)
LongDiv(rem, den, q, steps) ==
  IF steps <= 8
  THEN <<q * 2^steps + (rem * 2^steps) \div den, (rem * 2^steps) % den>>
  ELSE LongDiv((rem * 2^8) % den, den, q * 2^8 + (rem * 2^8) \div den, steps - 8)

\* a / b (0/0 is NaN; no other division by zero occurs in the model)
FDiv(a, b) ==
  IF a.nan \/ b.nan \/ b.m = 0 THEN FNaN
  ELSE IF a.m = 0 THEN FZero
  ELSE LET steps == MantBits + 2
           qr == LongDiv(a.m % b.m, b.m, a.m \div b.m, steps)
       IN FRound(a.sg * b.sg, qr[1], a.e - b.e - steps, qr[2] # 0)

\* Number.isFinite on a double of the model
FIsFinite(a) == ~a.nan

\* the keys of the records, as strings
K ==
  [
    model |-> <<"m", "o", "d", "e", "l">>,
    BLD_DESC_RV_MODEL |->  <<"B", "L", "D", "_", "D", "E", "S", "C", "_", "R", "V", "_", "M", "O", "D", "E", "L">>,
    Model |-> <<"M", "o", "d", "e", "l">>,
    model_name |-> <<"m", "o", "d", "e", "l", "_", "n", "a", "m", "e">>,
    MODEL |-> <<"M", "O", "D", "E", "L">>,
    emb_x |-> <<"e", "m", "b", "_", "x">>,
    emb_y |-> <<"e", "m", "b", "_", "y">>,
    cluster |-> <<"c", "l", "u", "s", "t", "e", "r">>,
    raw_x |-> <<"r", "a", "w", "_", "x">>,
    raw_y |-> <<"r", "a", "w", "_", "y">>,
    ADMARK_STATE |-> <<"A", "D", "M", "A", "R", "K", "_", "S", "T", "A", "T", "E">>,
    admark_state |-> toLowerCase((<<"A", "D", "M", "A", "R", "K", "_", "S", "T", "A", "T", "E">>)),
    STATE_UC |-> <<"S", "T", "A", "T", "E">>,
    State |-> <<"S", "t", "a", "t", "e">>,
    state |-> <<"s", "t", "a", "t", "e">>,
    DM_STATE |-> <<"D", "M", "_", "S", "T", "A", "T", "E">>,
    DM_STATE_CODE |-> (<<"D", "M", "_", "S", "T", "A", "T", "E">>) \o <<"_", "C", "O", "D", "E">>,
    STATE_ABBR |-> <<"S", "T", "A", "T", "E", "_", "A", "B", "B", "R">>,
    state_abbr |-> toLowerCase((<<"S", "T", "A", "T", "E", "_", "A", "B", "B", "R">>)),
    ST |-> <<"S", "T">>,
    st |-> <<"s", "t">>,
    NAME |-> <<"N", "A", "M", "E">>,
    START |-> <<"S", "T", "A", "R", "T">>,
    LABEL |-> <<"L", "A", "B", "E", "L">>,
    DEMO_GENDER1 |-> <<"D", "E", "M", "O", "_", "G", "E", "N", "D", "E", "R", "1">>,
    PV_VALUE |-> <<"P", "V", "_", "V", "A", "L", "U", "E">>,
    OL_MODEL_GRP |-> <<"O", "L", "_", "M", "O", "D", "E", "L", "_", "G", "R", "P">>,
    DEMO_INCOME |-> <<"D", "E", "M", "O", "_", "I", "N", "C", "O", "M", "E">>,
    FIN_PU_APR |-> <<"F", "I", "N", "_", "P", "U", "_", "A", "P", "R">>,
    FIN_PRICE_UNEDITED |->
      <<"F", "I", "N", "_", "P", "R", "I", "C", "E", "_", "U", "N", "E", "D", "I", "T", "E", "D">>,
    C1_PL |-> <<"C", "1", "_", "P", "L">>,
    FIN_CREDIT |-> <<"F", "I", "N", "_", "C", "R", "E", "D", "I", "T">>,
    STATE_REFER |-> <<"S", "T", "A", "T", "E", "_", "R", "E", "F", "E", "R">> ]

\* labels and state names, as strings
L ==
  [
    Male |-> <<"M", "a", "l", "e">>,
    Female |-> <<"F", "e", "m", "a", "l", "e">>,
    StronglyAgree |-> <<"S", "t", "r", "o", "n", "g", "l", "y", " ", "A", "g", "r", "e", "e">>,
    SomewhatAgree |-> <<"S", "o", "m", "e", "w", "h", "a", "t", " ", "A", "g", "r", "e", "e">>,
    Agree |-> <<"A", "g", "r", "e", "e">>,
    Disagree |-> <<"D", "i", "s", "a", "g", "r", "e", "e">>,
    Loyal |-> <<"L", "o", "y", "a", "l">>,
    Texas |-> <<"T", "e", "x", "a", "s">>,
    Ohio |-> <<"O", "h", "i", "o">>,
    Indiana |-> <<"I", "n", "d", "i", "a", "n", "a">>,
    Unknown |-> <<"U", "n", "k", "n", "o", "w", "n">>,
    Under30k |-> <<"U", "n", "d", "e", "r", " ", "$", "3", "0", "k">>,
    Over110k |-> <<"$", "1", "1", "0", "k", "+">> ]

(***************************************************************************)
(* Records: a record is a function from its keys (strings) to values; a   *)
(* key the record lacks reads as undefined.                                *)
(***************************************************************************)

\* r?.[k]
Get(r, k) == IF k \in DOMAIN r THEN r[k] ELSE Undefined

\* { ...r, k1: v1, ... }: the record r with the keys of upd set
Spread(r, upd) ==
  [k \in DOMAIN r \cup DOMAIN upd |-> IF k \in DOMAIN upd THEN upd[k] ELSE r[k]]

\* a ?? b
Coalesce(a, b) == IF IsNullish(a) THEN b ELSE a

\* arr.filter(pred)
Filter(arr, pred(_)) == SelectSeq(arr, pred)

\* arr.includes(x)
Includes(arr, x) == \E i \in DOMAIN arr : arr[i] = x

(***************************************************************************)
(* Row normalisation: the `rows` memo                                      *)
(***************************************************************************)
\* r?.model ?? r?.BLD_DESC_RV_MODEL ?? r?.Model ?? r?.model_name ?? r?.MODEL ?? null
modelVal(r) ==
  Coalesce(Get(r, K.model),
    Coalesce(Get(r, K.BLD_DESC_RV_MODEL),
      Coalesce(Get(r, K.Model),
        Coalesce(Get(r, K.model_name),
          Coalesce(Get(r, K.MODEL), Null)))))

\* the test `continue` is taken on, negated
RowAdmitted(r) ==
  /\ ~Falsy(modelVal(r))
  /\ NumberIsFinite(Number(Get(r, K.emb_x)))
  /\ NumberIsFinite(Number(Get(r, K.emb_y)))
  /\ NumberIsFinite(Number(Get(r, K.cluster)))

\* the record pushed for an admitted raw record
NormalizedRow(r) ==
  LET x == Number(Get(r, K.emb_x))
      y == Number(Get(r, K.emb_y))
      cl == Number(Get(r, K.cluster))
  IN Spread(r, (K.model :> Str(String(modelVal(r)))) @@ (K.raw_x :> x) @@ (K.raw_y :> y)
                 @@ (K.emb_x :> x) @@ (K.emb_y :> y) @@ (K.cluster :> cl))

RECURSIVE NormalizeRows(_)
NormalizeRows(dataPoints) ==
  IF dataPoints = <<>> THEN <<>>
  ELSE (IF RowAdmitted(Head(dataPoints)) THEN <<NormalizedRow(Head(dataPoints))>> ELSE <<>>)
       \o NormalizeRows(Tail(dataPoints))

(***************************************************************************)
(* Map: a sequence of <<key, value>> pairs in insertion order              *)
(***************************************************************************)
MapHas(m, k) == \E i \in DOMAIN m : m[i][1] = k
MapGet(m, k) ==
  IF MapHas(m, k) THEN m[CHOOSE i \in DOMAIN m : m[i][1] = k][2] ELSE Undefined
MapSet(m, k, v) ==
  IF MapHas(m, k)
  THEN [i \in DOMAIN m |-> IF m[i][1] = k THEN <<k, v>> ELSE m[i]]
  ELSE Append(m, <<k, v>>)

\* order of the characters of the model by UTF-16 code unit
CharOrder ==
  <<"\t", "\n", " ", "$", "+", ",", "-", ".">> \o Digits \o UpperLetters \o <<"_">> \o LowerLetters

\* a < b for strings, as the default Array.prototype.sort compares them
RECURSIVE StrLess(_, _)
StrLess(a, b) ==
  IF b = <<>> THEN FALSE
  ELSE IF a = <<>> THEN TRUE
  ELSE IF Head(a) = Head(b) THEN StrLess(Tail(a), Tail(b))
  ELSE IndexIn(Head(a), CharOrder) < IndexIn(Head(b), CharOrder)

\* Array.from(new Set(arr)): first occurrences, in order
RECURSIVE Unique(_)
Unique(arr) ==
  CHOOSE out \in
    { IF a = <<>> THEN <<>>
      ELSE LET Keep(init, last) == IF Includes(init, last) THEN init ELSE Append(init, last)
           IN Keep(Unique(SubSeq(a, 1, Len(a) - 1)), a[Len(a)])
      : a \in {arr} } : TRUE

\* arr without its i-th element
RemoveAt(arr, i) == [j \in 1..(Len(arr) - 1) |-> IF j < i THEN arr[j] ELSE arr[j + 1]]

\* arr.sort() for an array of distinct strings
RECURSIVE SortStrings(_)
SortStrings(arr) ==
  CHOOSE out \in
    { IF a = <<>> THEN <<>>
      ELSE LET First(i) == <<a[i]>> \o SortStrings(RemoveAt(a, i))
           IN First(CHOOSE i \in DOMAIN a :
                      \A j \in DOMAIN a : j = i \/ StrLess(a[i].s, a[j].s))
      : a \in {arr} } : TRUE

\* arr.sort((a, b) => a - b) for an array of distinct numbers
RECURSIVE SortNumbers(_)
SortNumbers(arr) ==
  CHOOSE out \in
    { IF a = <<>> THEN <<>>
      ELSE LET First(i) == <<a[i]>> \o SortNumbers(RemoveAt(a, i))
           IN First(CHOOSE i \in DOMAIN a : \A j \in DOMAIN a : j = i \/ a[i].n < a[j].n)
      : a \in {arr} } : TRUE

MapSeq(arr, f(_)) == CHOOSE out \in {[i \in DOMAIN a |-> f(a[i])] : a \in {arr}} : TRUE

(***************************************************************************)
(* Reference tables                                                        *)
(***************************************************************************)

STATE_KEYS ==
  <<K.ADMARK_STATE, K.admark_state, K.STATE_UC, K.State, K.state, K.DM_STATE,
    K.DM_STATE_CODE, K.STATE_ABBR, K.state_abbr, K.ST, K.st>>

\* the entries of US_STATE_ABBR_TO_NAME the model keeps
US_STATE_ABBR_TO_NAME ==
  << <<<<"T", "X">>, L.Texas>>, <<<<"O", "H">>, L.Ohio>>, <<<<"I", "N">>, L.Indiana>> >>

\* US_STATE_ABBR_TO_NAME[key], undefined when the object has no such key
AbbrToName(key) ==
  IF MapHas(US_STATE_ABBR_TO_NAME, key) THEN Str(MapGet(US_STATE_ABBR_TO_NAME, key))
  ELSE Undefined

US_STATE_NAME_SET == MapSeq(US_STATE_ABBR_TO_NAME, LAMBDA pr : pr[2])

MappingRow(name, start, label) ==
  (K.NAME :> Str(name)) @@ (K.START :> start) @@ (K.LABEL :> Str(label))

\* the rows of data/demos-mapping.json the model keeps
demosMapping ==
  << MappingRow(K.ADMARK_STATE, Num(44), <<"T", "X">>),
     MappingRow(K.ADMARK_STATE, Num(36), L.Ohio),
     MappingRow(K.DEMO_GENDER1, Num(1), L.Male),
     MappingRow(K.DEMO_GENDER1, Num(2), L.Female),
     MappingRow(K.PV_VALUE, Num(5), L.StronglyAgree),
     MappingRow(K.PV_VALUE, Num(4), L.Agree),
     MappingRow(K.PV_VALUE, Num(3), L.SomewhatAgree),
     MappingRow(K.PV_VALUE, Num(1), L.Disagree),
     MappingRow(K.OL_MODEL_GRP, Num(1), L.Loyal),
     MappingRow(K.OL_MODEL_GRP, Num(9), <<>>) >>

\* a || b
Or(a, b) == IF Falsy(a) THEN b ELSE a

\* demoLookups.get(field) || new Map(): the code map of a field, built from
\* the mapping rows in order
RECURSIVE CodeMapFrom(_, _)
CodeMapFrom(mapping, field) ==
  IF mapping = <<>> THEN <<>>
  ELSE LET m0 == CodeMapFrom(SubSeq(mapping, 1, Len(mapping) - 1), field)
           row == mapping[Len(mapping)]
           name == trim(String(Coalesce(Get(row, K.NAME), Str(<<>>))))
           start == Get(row, K.START)
           label == Str(trim(String(Coalesce(Get(row, K.LABEL), Str(<<>>)))))
           m1 == MapSet(m0, start, label)
           m2 == MapSet(m1, Str(String(start)), label)
       IN IF name = <<>> \/ name # field THEN m0
          ELSE IF NumberIsFinite(Number(start)) THEN MapSet(m2, Number(start), label)
          ELSE m2

demoLookupsGet(field) == CodeMapFrom(demosMapping, field)

(***************************************************************************)
(* State names                                                             *)
(***************************************************************************)
IsUpper(c) == IndexIn(c, UpperLetters) # 0
\* \w
IsWordChar(c) == IsUpper(c) \/ IndexIn(c, LowerLetters) # 0 \/ IsDigit(c) \/ c = "_"

\* s.match(/\b[A-Z]{2}\b/g) || []
TwoLetterTokens(s) ==
  LET starts == { i \in 1..(Len(s) - 1) :
                    /\ IsUpper(s[i]) /\ IsUpper(s[i + 1])
                    /\ (i = 1 \/ ~IsWordChar(s[i - 1]))
                    /\ (i + 1 = Len(s) \/ ~IsWordChar(s[i + 2])) }
      idx == SelectSeq([i \in 1..Len(s) |-> i], LAMBDA i : i \in starts)
  IN [j \in DOMAIN idx |-> SubSeq(s, idx[j], idx[j] + 1)]

\* tokens.find((tok) => US_STATE_ABBR_TO_NAME[tok.toUpperCase()])
FindAbbrToken(tokens) ==
  LET hits == SelectSeq(tokens, LAMBDA tok : ~Falsy(AbbrToName(toUpperCase(tok))))
  IN IF hits = <<>> THEN Undefined ELSE Str(Head(hits))

toStateName(labelRaw) ==
  LET Named(lower) == SelectSeq(US_STATE_NAME_SET, LAMBDA name : toLowerCase(name) = lower)
      Pick(byAbbr, named, two) ==
        IF ~Falsy(byAbbr) THEN byAbbr
        ELSE IF named # <<>> THEN Str(Head(named))
        ELSE IF ~Falsy(two) THEN AbbrToName(toUpperCase(two.s))
        ELSE Null
      OfText(s) ==
        Pick(AbbrToName(toUpperCase(s)), Named(toLowerCase(s)),
             FindAbbrToken(TwoLetterTokens(s)))
  IN IF Falsy(labelRaw) THEN Null ELSE OfText(trim(String(labelRaw)))

\* const codeMap = demoLookups.get("ADMARK_STATE") || new Map()
stateCodeMap == demoLookupsGet(K.ADMARK_STATE)

\* the body of the loop of getRowStateName for one key: the name returned,
\* or undefined when the loop goes on to the next key
StateNameAt(row, k) ==
  LET Mapped(raw, codeMap) ==
        Or(MapGet(codeMap, raw),
           Or(MapGet(codeMap, Str(String(raw))), MapGet(codeMap, Number(raw))))
      Val(raw, mapped) ==
        IF k = K.ADMARK_STATE /\ ~Falsy(mapped) THEN trim(String(mapped))
        ELSE trim(String(raw))
      Pick(name, two) ==
        IF ~Falsy(name) THEN name
        ELSE IF ~Falsy(two) THEN AbbrToName(toUpperCase(two.s))
        ELSE Undefined
      OfVal(val) ==
        Pick(Or(toStateName(Str(val)), Or(AbbrToName(toUpperCase(val)), Null)),
             FindAbbrToken(TwoLetterTokens(val)))
      OfRaw(raw) ==
        IF IsNullish(raw) \/ trim(String(raw)) = <<>> THEN Undefined
        ELSE OfVal(Val(raw, Mapped(raw, stateCodeMap)))
  IN OfRaw(Get(row, k))

\* the scan ending at the first key with a non-blank value, resolved or not
RECURSIVE StateNameFrom_FirstNonBlank(_, _)
StateNameFrom_FirstNonBlank(row, keys) ==
  IF keys = <<>> THEN Null
  ELSE IF StateNameAt(row, Head(keys)) # Undefined THEN StateNameAt(row, Head(keys))
  ELSE IF IsNullish(Get(row, Head(keys))) \/ trim(String(Get(row, Head(keys)))) = <<>>
       THEN StateNameFrom_FirstNonBlank(row, Tail(keys))
       ELSE Null

\* the name returned at the first key whose turn of the loop returns one
StateNameFrom(row, keys) ==
  LET FirstDefined(names) ==
        IF \E i \in DOMAIN names : names[i] # Undefined
        THEN names[CHOOSE i \in DOMAIN names :
                     names[i] # Undefined /\ \A j \in 1..(i - 1) : names[j] = Undefined]
        ELSE Null
  IN FirstDefined([i \in DOMAIN keys |-> StateNameAt(row, keys[i])])

getRowStateName(row) == StateNameFrom(row, STATE_KEYS)

(***************************************************************************)
(* Data sets the component is started with                                 *)
(***************************************************************************)

\* a raw record with a model, a position, a cluster and (unless undefined)
\* a value under the STATE key
Point(m, x, cl, st) ==
  LET base == (K.model :> Str(m)) @@ (K.emb_x :> x) @@ (K.emb_y :> Num(2)) @@ (K.cluster :> cl)
  IN IF st = Undefined THEN base ELSE (K.STATE_UC :> st) @@ base

SuvPointsChoices ==
  { << Point(<<"B">>, Num(1), Num(1), Str(<<"T", "X">>)),
       Point(<<"A">>, Num(3), Str(<<"2">>), Str(L.Ohio)),
       Point(<<"A">>, Num(5), Num(1), Str(<<"O", "H">>)),
       Point(<<"A">>, Num(7), Num(1), Undefined) >>,
    << Point(<<"A">>, Str(<<"4">>), Num(5), Str(<<"t", "e", "x", "a", "s">>)),
       Point(<<"B">>, Undefined, Num(1), Str(<<"T", "X">>)) >> }

\* the longest row list handed to a function checked on its own
MaxRows == 2

\* the arrays of at most MaxRows elements of a set
ListsOf(S) == UNION {[1..k -> S] : k \in 0..MaxRows}

PuPointsChoices ==
  { << Point(<<"C">>, Num(1), Num(3), Str(L.Indiana)) >> }

(***************************************************************************)
(* State of the CustomerGroups component                                   *)
(***************************************************************************)
VARIABLES
  datasetMode,        \* "CORE" or "SEGMENTS"
  group,              \* "SUV" or "Pickup"
  selectedModels,     \* array of model names
  zoomCluster,        \* null or a cluster number
  centerT,            \* the collapse slider, in hundredths
  selectedStateName,  \* null or a state name
  demoModel,          \* null or a model name
  attLocked, priceLocked, mapLocked,
  suvPoints, puPoints,  \* the two imported data sets
  seen,               \* the dependencies each effect last ran with, and whether the
                      \* effects of the last render have run
  call,               \* the function applied to an input, with its arguments
  ret,                \* its result
  state,              \* the scenario of the MarketSimulation component
  frame,              \* the call of bisectPrice in progress: its locals and position
  view                \* the segments market view: its state and the hover of its chart

uiVars ==
  <<datasetMode, group, selectedModels, zoomCluster, centerT, selectedStateName,
    demoModel, attLocked, priceLocked, mapLocked, suvPoints, puPoints, seen>>
fnVars == <<call, ret>>
simVars == <<state, frame, view>>
vars == <<uiVars, fnVars, simVars>>

dataPoints ==
  IF datasetMode = "CORE" THEN (IF group = "SUV" THEN suvPoints ELSE puPoints) ELSE <<>>

\* the rows memo, computed once for each dataPoints array
RowsMemo ==
  [d \in SuvPointsChoices \cup PuPointsChoices \cup {<<>>} |-> NormalizeRows(d)]

rows == RowsMemo[dataPoints]

allModels == SortStrings(Unique(MapSeq(rows, LAMBDA r : r[K.model])))

\* baseByModel without the fall-back to allModels
baseByModel_NoFallback ==
  Filter(rows, LAMBDA r : Includes(selectedModels, r[K.model]))

baseByModel ==
  LET active == IF Len(selectedModels) # 0 THEN selectedModels ELSE allModels
  IN Filter(rows, LAMBDA r : Includes(active, r[K.model]))

plotFrame ==
  IF IsNullish(zoomCluster) THEN baseByModel
  ELSE Filter(baseByModel, LAMBDA r : r[K.cluster] = zoomCluster)

\* scopeRows with the cluster filter applied to rows, not to baseByModel
scopeRows_FromRows ==
  LET base == IF IsNullish(zoomCluster) THEN rows
              ELSE Filter(rows, LAMBDA r : r[K.cluster] = zoomCluster)
  IN IF Falsy(selectedStateName) THEN base
     ELSE Filter(base, LAMBDA r : getRowStateName(r) = selectedStateName)

scopeRows ==
  LET base == IF IsNullish(zoomCluster) THEN baseByModel
              ELSE Filter(baseByModel, LAMBDA r : r[K.cluster] = zoomCluster)
  IN IF Falsy(selectedStateName) THEN base
     ELSE Filter(base, LAMBDA r : getRowStateName(r) = selectedStateName)

availableClusters == SortNumbers(Unique(MapSeq(baseByModel, LAMBDA r : r[K.cluster])))

modelsInScope == SortStrings(Unique(MapSeq(plotFrame, LAMBDA r : r[K.model])))

\* attBaseRows with a lock that keeps the model filter
attBaseRows_LockKeepsModels ==
  IF attLocked THEN baseByModel
  ELSE IF ~Falsy(demoModel) THEN Filter(scopeRows, LAMBDA r : r[K.model] = demoModel)
  ELSE scopeRows

attBaseRows ==
  IF attLocked THEN rows
  ELSE IF ~Falsy(demoModel) THEN Filter(scopeRows, LAMBDA r : r[K.model] = demoModel)
  ELSE scopeRows

priceBaseRows ==
  IF priceLocked THEN rows
  ELSE IF ~Falsy(demoModel) THEN Filter(scopeRows, LAMBDA r : r[K.model] = demoModel)
  ELSE scopeRows

demoBaseRows ==
  IF IsNullish(zoomCluster) THEN baseByModel
  ELSE Filter(baseByModel, LAMBDA r : r[K.cluster] = zoomCluster)

mapBaseRows ==
  IF ~Falsy(demoModel) THEN Filter(demoBaseRows, LAMBDA r : r[K.model] = demoModel)
  ELSE demoBaseRows

\* a map that falls back to every row while a state is selected
mapSourceRows_AllRowsForSelectedState ==
  IF mapLocked \/ ~Falsy(selectedStateName) THEN rows ELSE mapBaseRows

mapSourceRows == IF mapLocked THEN rows ELSE mapBaseRows

\* the rows demoSummary breaks down by category (srcAll)
srcAll ==
  IF ~Falsy(demoModel) THEN Filter(scopeRows, LAMBDA r : r[K.model] = demoModel)
  ELSE scopeRows

DatasetModes == {"CORE", "SEGMENTS"}
Groups == {"SUV", "Pickup"}
\* the cluster buttons of the zoom bar
ClusterButtons == {1, 2, 3, 4}
\* the positions of the collapse slider the model moves it to (hundredths)
SliderValues == {0, 100}

\* the identity of the allModels array: the memo keeps it while dataPoints is
\* one of the imported arrays, and dataPoints is a new [] at every render in
\* any other dataset mode
AllModelsIdentity == IF datasetMode = "CORE" THEN group ELSE "fresh"

NoCall == [op |-> "none"]
NoRet == [done |-> FALSE, value |-> <<>>]
Ret(v) == [done |-> TRUE, value |-> v]

\* ten to the n, by squaring
RECURSIVE Pow10(_)
Pow10(n) ==
  IF n = 0 THEN FromInt(1)
  ELSE IF n % 2 = 1 THEN FMul(Pow10(n - 1), FromInt(10))
  ELSE LET Square(h) == FMul(h, h) IN Square(Pow10(n \div 2))

\* the double written k e p in the source (to within a unit in the last place
\* when ten to the |p| is not a double of the model)
Dec[k \in Int, p \in Int] ==
  IF p >= 0 THEN FMul(FromInt(k), Pow10(p)) ELSE FDiv(FromInt(k), Pow10(0 - p))

\* no call of bisectPrice is in progress
NoFrame == [pc |-> "none"]

\* useState({ price: 50, base_price: 50, ... }) of MarketSimulation
InitialScenario ==
  [price |-> FromInt(50), base_price |-> FromInt(50), base_demand |-> FromInt(10000),
   elasticity |-> Dec[-12, -1], vcpu |-> FromInt(20), fixed_cost |-> FromInt(120000)]

(***************************************************************************)
(* State of the segments market view (Segments / Powertrains)              *)
(***************************************************************************)
\* the number of months of monthTicks: 2023-01 to 2040-01 in the source
MonthCount == 5
\* monthTicks.indexOf(futureCutoffYM), the last historical month
futureCutoffIdx == 2
\* monthTicks.indexOf(HIST_START_YM), the first month of monthTicks
HistStartIdx == 0
LastMonthIdx == MonthCount - 1

ViewModes == {"segments", "powertrains"}
\* MODES[mode].keys[0]
FirstKey(m) == IF m = "segments" THEN "S SUV" ELSE "ICE"
\* the keys a card can be shown for in the model
ViewKeys == {"S SUV", "M SUV", "ICE"}

\* an entry of edits: nothing, the values of a month, or the averages of a range
NoEdit == [src |-> "none", from |-> 0, to |-> 0]
NoEdits == [k \in ViewKeys |-> NoEdit]

InitialView ==
  [mode |-> "segments", selected |-> <<"M SUV">>, edits |-> NoEdits,
   selectedMonthIdx |-> Null, rangeStartIdx |-> HistStartIdx,
   rangeEndIdx |-> futureCutoffIdx, hoverI |-> Null]

UIInit ==
  /\ datasetMode = "CORE"
  /\ group = "SUV"
  /\ selectedModels = allModels
  /\ zoomCluster = Null
  /\ centerT = 0
  /\ selectedStateName = Null
  /\ demoModel = Null
  /\ attLocked = FALSE
  /\ priceLocked = FALSE
  /\ mapLocked = FALSE
  /\ seen = [datasetMode |-> "CORE", group |-> "SUV", allModels |-> "SUV", ran |-> TRUE]

Init ==
  /\ suvPoints \in SuvPointsChoices
  /\ puPoints \in PuPointsChoices
  /\ UIInit
  /\ call = NoCall
  /\ ret = NoRet
  /\ state = InitialScenario
  /\ frame = NoFrame
  /\ view = InitialView

(***************************************************************************)
(* Effects. After a render React runs, in the order of their declaration,  *)
(* every effect whose dependencies changed. Each effect reads the values   *)
(* of that render and queues its setState calls; the queued updates are    *)
(* applied together before the next render. An effect below takes the      *)
(* queued state q and gives it back with its own updates.                  *)
(***************************************************************************)
\* the state variables the effects set, as rendered
Rendered ==
  [zoomCluster |-> zoomCluster, centerT |-> centerT,
   selectedStateName |-> selectedStateName, demoModel |-> demoModel,
   selectedModels |-> selectedModels]

\* the datasetMode effect without setSelectedStateName(null)
DatasetModeEffect_KeepsState(q) ==
  IF seen.datasetMode # datasetMode
  THEN [q EXCEPT !.zoomCluster = Null, !.centerT = 0, !.demoModel = Null]
  ELSE q

DatasetModeEffect(q) ==
  IF seen.datasetMode # datasetMode
  THEN [q EXCEPT !.zoomCluster = Null, !.centerT = 0, !.selectedStateName = Null,
                 !.demoModel = Null]
  ELSE q

AllModelsEffect(q) ==
  IF seen.allModels # AllModelsIdentity \/ AllModelsIdentity = "fresh"
  THEN [q EXCEPT !.selectedModels = allModels]
  ELSE q

GroupEffect(q) ==
  IF seen.group # group
  THEN [q EXCEPT !.zoomCluster = Null, !.centerT = 0]
  ELSE q

\* a zoomCluster effect that never resets the cluster
ZoomClusterEffect_Never(q) == q

ZoomClusterEffect(q) ==
  IF ~IsNullish(zoomCluster) /\ ~Includes(availableClusters, zoomCluster)
  THEN [q EXCEPT !.zoomCluster = Null]
  ELSE q

\* a demoModel effect that never resets the model
DemoModelEffect_Never(q) == q

DemoModelEffect(q) ==
  IF ~Falsy(demoModel) /\ ~Includes(modelsInScope, demoModel)
  THEN [q EXCEPT !.demoModel = Null]
  ELSE q

\* No effect is waiting to run: the effects of the last render have run and
\* have left the state as it was rendered. React runs the effects of a
\* render before it handles the next event, so the handlers below start from
\* such a state, and each of them causes a render.
Settled == seen.ran

(***************************************************************************)
(* Event handlers                                                          *)
(***************************************************************************)
Data == <<suvPoints, puPoints>>

SetDatasetMode ==
  /\ Settled
  /\ \E id \in DatasetModes : datasetMode' = id
  /\ seen' = [seen EXCEPT !.ran = FALSE]
  /\ UNCHANGED <<group, selectedModels, zoomCluster, centerT, selectedStateName, demoModel,
                 attLocked, priceLocked, mapLocked, Data, fnVars, simVars>>

SetGroup ==
  /\ Settled
  /\ \E g \in Groups : group' = g
  /\ seen' = [seen EXCEPT !.ran = FALSE]
  /\ UNCHANGED <<datasetMode, selectedModels, zoomCluster, centerT, selectedStateName,
                 demoModel, attLocked, priceLocked, mapLocked, Data, fnVars, simVars>>

\* toggleModel(m), from the chip of a model of allModels
toggleModel ==
  /\ Settled
  /\ \E i \in DOMAIN allModels :
       LET m == allModels[i] IN
       selectedModels' = IF Includes(selectedModels, m)
                         THEN Filter(selectedModels, LAMBDA x : x # m)
                         ELSE Append(selectedModels, m)
  /\ seen' = [seen EXCEPT !.ran = FALSE]
  /\ UNCHANGED <<datasetMode, group, zoomCluster, centerT, selectedStateName, demoModel,
                 attLocked, priceLocked, mapLocked, Data, fnVars, simVars>>

selectAll ==
  /\ Settled
  /\ selectedModels' = allModels
  /\ seen' = [seen EXCEPT !.ran = FALSE]
  /\ UNCHANGED <<datasetMode, group, zoomCluster, centerT, selectedStateName, demoModel,
                 attLocked, priceLocked, mapLocked, Data, fnVars, simVars>>

clearAll ==
  /\ Settled
  /\ selectedModels' = <<>>
  /\ seen' = [seen EXCEPT !.ran = FALSE]
  /\ UNCHANGED <<datasetMode, group, zoomCluster, centerT, selectedStateName, demoModel,
                 attLocked, priceLocked, mapLocked, Data, fnVars, simVars>>

\* the All button, a cluster button, or a click on a point or centroid of the
\* scatter plot
SetZoomCluster ==
  /\ Settled
  /\ \/ zoomCluster' = Null
     \/ \E k \in ClusterButtons : zoomCluster' = Num(k)
     \/ \E i \in DOMAIN plotFrame : zoomCluster' = plotFrame[i][K.cluster]
  /\ seen' = [seen EXCEPT !.ran = FALSE]
  /\ UNCHANGED <<datasetMode, group, selectedModels, centerT, selectedStateName, demoModel,
                 attLocked, priceLocked, mapLocked, Data, fnVars, simVars>>

SetCenterT ==
  /\ Settled
  /\ \E v \in SliderValues : centerT' = v
  /\ seen' = [seen EXCEPT !.ran = FALSE]
  /\ UNCHANGED <<datasetMode, group, selectedModels, zoomCluster, selectedStateName,
                 demoModel, attLocked, priceLocked, mapLocked, Data, fnVars, simVars>>

\* a click on a state of the map, or the clear button shown while a state is
\* selected
SetSelectedStateName ==
  /\ Settled
  /\ \/ \E i \in DOMAIN US_STATE_NAME_SET : selectedStateName' = Str(US_STATE_NAME_SET[i])
     \/ ~Falsy(selectedStateName) /\ selectedStateName' = Null
  /\ seen' = [seen EXCEPT !.ran = FALSE]
  /\ UNCHANGED <<datasetMode, group, selectedModels, zoomCluster, centerT, demoModel,
                 attLocked, priceLocked, mapLocked, Data, fnVars, simVars>>

\* the All button or the button of a model of modelsInScope
SetDemoModel ==
  /\ Settled
  /\ \/ demoModel' = Null
     \/ \E i \in DOMAIN modelsInScope : demoModel' = modelsInScope[i]
  /\ seen' = [seen EXCEPT !.ran = FALSE]
  /\ UNCHANGED <<datasetMode, group, selectedModels, zoomCluster, centerT, selectedStateName,
                 attLocked, priceLocked, mapLocked, Data, fnVars, simVars>>

ToggleAttLocked ==
  /\ Settled
  /\ attLocked' = ~attLocked
  /\ seen' = [seen EXCEPT !.ran = FALSE]
  /\ UNCHANGED <<datasetMode, group, selectedModels, zoomCluster, centerT, selectedStateName,
                 demoModel, priceLocked, mapLocked, Data, fnVars, simVars>>

TogglePriceLocked ==
  /\ Settled
  /\ priceLocked' = ~priceLocked
  /\ seen' = [seen EXCEPT !.ran = FALSE]
  /\ UNCHANGED <<datasetMode, group, selectedModels, zoomCluster, centerT, selectedStateName,
                 demoModel, attLocked, mapLocked, Data, fnVars, simVars>>

ToggleMapLocked ==
  /\ Settled
  /\ mapLocked' = ~mapLocked
  /\ seen' = [seen EXCEPT !.ran = FALSE]
  /\ UNCHANGED <<datasetMode, group, selectedModels, zoomCluster, centerT, selectedStateName,
                 demoModel, attLocked, priceLocked, Data, fnVars, simVars>>

\* the effects of one render, and the state they leave for the next one; a
\* state they changed is rendered again, and its effects run in their turn
RunEffects ==
  /\ ~seen.ran
  /\ \E q1 \in {DatasetModeEffect(Rendered)} :
     \E q2 \in {AllModelsEffect(q1)} :
     \E q3 \in {GroupEffect(q2)} :
     \E q4 \in {ZoomClusterEffect(q3)} :
     \E q \in {DemoModelEffect(q4)} :
       /\ zoomCluster' = q.zoomCluster
       /\ centerT' = q.centerT
       /\ selectedStateName' = q.selectedStateName
       /\ demoModel' = q.demoModel
       /\ selectedModels' = q.selectedModels
  /\ seen' = [datasetMode |-> datasetMode, group |-> group, allModels |-> AllModelsIdentity,
              ran |-> (zoomCluster' = zoomCluster /\ centerT' = centerT
                       /\ selectedStateName' = selectedStateName
                       /\ demoModel' = demoModel /\ selectedModels' = selectedModels)]
  /\ UNCHANGED <<datasetMode, group, attLocked, priceLocked, mapLocked, Data, fnVars,
                 simVars>>

Next ==
  \/ SetDatasetMode
  \/ SetGroup
  \/ toggleModel
  \/ selectAll
  \/ clearAll
  \/ SetZoomCluster
  \/ SetCenterT
  \/ SetSelectedStateName
  \/ SetDemoModel
  \/ ToggleAttLocked
  \/ TogglePriceLocked
  \/ ToggleMapLocked
  \/ RunEffects

Spec == Init /\ [][Next]_vars

(***************************************************************************)
(* Properties of the filter scopes                                         *)
(***************************************************************************)
Range(arr) == {arr[i] : i \in DOMAIN arr}

\* a is an order-preserving subsequence of b (each element of b used once)
RECURSIVE IsSubseq(_, _)
IsSubseq(a, b) ==
  IF a = <<>> THEN TRUE
  ELSE IF b = <<>> THEN FALSE
  ELSE IF Head(a) = Head(b) THEN IsSubseq(Tail(a), Tail(b))
  ELSE IsSubseq(a, Tail(b))

\* the number of elements of arr that satisfy pred
CountIn(arr, pred(_)) == Cardinality({i \in DOMAIN arr : pred(arr[i])})

\* C2: with an empty selected-model list the model filter returns every
\* normalized row; with a non-empty list it returns, in order, exactly the
\* rows whose model is in the list.
C2_EmptySelectionMeansAll ==
  /\ selectedModels = <<>> => baseByModel = rows
  /\ selectedModels # <<>> =>
       /\ IsSubseq(baseByModel, rows)
       /\ \A i \in DOMAIN baseByModel : baseByModel[i][K.model] \in Range(selectedModels)
       /\ Len(baseByModel) = CountIn(rows, LAMBDA r : r[K.model] \in Range(selectedModels))

\* clearAll has emptied the list while the data set has rows of two models
C2_Witness ==
  /\ selectedModels = <<>>
  /\ Len(allModels) = 2
  /\ Len(baseByModel) = 4

\* C3: scopeRows is a subsequence of plotFrame, plotFrame of baseByModel and
\* baseByModel of rows; plotFrame keeps exactly the rows of baseByModel in the
\* zoomed cluster and scopeRows exactly the rows of plotFrame in the selected
\* state.
C3_ScopesNested ==
  /\ IsSubseq(scopeRows, plotFrame)
  /\ IsSubseq(plotFrame, baseByModel)
  /\ IsSubseq(baseByModel, rows)
  /\ Len(plotFrame) = CountIn(baseByModel,
        LAMBDA r : zoomCluster = Null \/ r[K.cluster] = zoomCluster)
  /\ Len(scopeRows) = CountIn(plotFrame,
        LAMBDA r : selectedStateName = Null \/ getRowStateName(r) = selectedStateName)

\* all three filters are active and each removes a row
C3_Witness ==
  /\ zoomCluster # Null
  /\ selectedStateName # Null
  /\ Len(scopeRows) = 1
  /\ Len(plotFrame) = 2
  /\ Len(baseByModel) = 3
  /\ Len(rows) = 4

\* C4: a locked panel aggregates the full normalized population; unlocked,
\* the attitude and price panels aggregate the rows of the category breakdown
\* (scopeRows restricted to demoModel).
C4_LockMeansFullPopulation ==
  /\ attLocked => attBaseRows = NormalizeRows(dataPoints)
  /\ priceLocked => priceBaseRows = NormalizeRows(dataPoints)
  /\ mapLocked => mapSourceRows = NormalizeRows(dataPoints)
  /\ ~attLocked => attBaseRows = srcAll
  /\ ~priceLocked => priceBaseRows = srcAll

\* the attitude and map panels are locked and the price panel is not, while
\* the model, cluster, state and demoModel filters all narrow the scope
C4_Witness ==
  /\ attLocked /\ mapLocked /\ ~priceLocked
  /\ zoomCluster # Null
  /\ selectedStateName # Null
  /\ demoModel # Null
  /\ Len(selectedModels) = 1
  /\ Len(priceBaseRows) = 1
  /\ Len(attBaseRows) = 4

(***************************************************************************)
(* Functions applied on their own: the component is idle, with no data,    *)
(* and `call` holds the arguments of one application                       *)
(***************************************************************************)
Idle ==
  /\ suvPoints = <<>>
  /\ puPoints = <<>>
  /\ UIInit
  /\ ret = NoRet
  /\ state = InitialScenario
  /\ frame = NoFrame
  /\ view = InitialView

\* ---- the rows memo ----
\* values a raw record may carry under model and its aliases
RawModelValues == {Undefined, Null, Str(<<>>), Str(<<" ">>), Str(<<"A">>)}
\* values a raw record may carry under emb_x, emb_y and cluster
RawNumericValues ==
  {Undefined, Null, Str(<<>>), Str(<<" ">>), Str(<<"x">>), Str(<<"-", "4">>), Num(3)}

RawRecord(m, alias, x, y, cl) ==
  LET put(k, v) == IF v = Undefined THEN <<>> ELSE <<<<k, v>>>>
      kv == put(K.model, m) \o put(K.BLD_DESC_RV_MODEL, alias) \o put(K.emb_x, x)
            \o put(K.emb_y, y) \o put(K.cluster, cl)
  IN [k \in {kv[i][1] : i \in DOMAIN kv} |-> MapGet(kv, k)]

\* raw records in which at most one of the four parts is not plain
RawRecords ==
  {RawRecord(m, a, Num(1), Num(2), Num(1)) :
     m \in RawModelValues, a \in {Undefined, Str(<<>>), Str(<<"C">>)}}
  \cup {RawRecord(Str(<<"B">>), Undefined, x, Num(2), Num(0)) : x \in RawNumericValues}
  \cup {RawRecord(Str(<<"B">>), Undefined, Num(1), y, Num(0)) : y \in RawNumericValues}
  \cup {RawRecord(Str(<<"B">>), Undefined, Num(1), Num(2), cl) : cl \in RawNumericValues}

InitRows ==
  /\ Idle
  /\ \E d \in ListsOf(RawRecords) : call = [op |-> "rows", dataPoints |-> d]

CallRows ==
  /\ call.op = "rows" /\ ~ret.done
  /\ ret' = Ret(NormalizeRows(call.dataPoints))
  /\ UNCHANGED <<uiVars, call, simVars>>

SpecRows == InitRows /\ [][CallRows]_vars

\* the value is a number, or a string that reads as one
HoldsFiniteNumber(v) ==
  \/ v.t = "number"
  \/ v.t = "string" /\ trim(v.s) # <<>> /\ StringToNumber(v.s).t = "number"

\* the resolved model is a non-empty value
HasModel(r) == ~IsNullish(modelVal(r)) /\ String(modelVal(r)) # <<>>

ShouldAdmit(r) ==
  /\ HasModel(r)
  /\ HoldsFiniteNumber(Get(r, K.emb_x))
  /\ HoldsFiniteNumber(Get(r, K.emb_y))
  /\ HoldsFiniteNumber(Get(r, K.cluster))

\* C1: the normalizer admits, in input order, exactly the raw records whose
\* resolved model is non-empty and whose emb_x, emb_y and cluster each hold a
\* finite numeric value; a record with one of them absent, null or an empty
\* string is dropped.
C1_AdmitsExactlyValidRecords ==
  ret.done =>
    ret.value = MapSeq(SelectSeq(call.dataPoints, ShouldAdmit), NormalizedRow)

\* (count / total) * 100 in doubles
Percent[count \in Int, total \in Int] ==
  FMul(FDiv(FromInt(count), FromInt(total)), FromInt(100))

(***************************************************************************)
(* stateAgg                                                                *)
(***************************************************************************)
\* one turn of the counting loop with the total raised for every row
CountState_TotalAllRows(acc, name) ==
  IF Falsy(name) THEN [acc EXCEPT !.total = @ + 1]
  ELSE [counts |-> MapSet(acc.counts, name,
                          (IF MapHas(acc.counts, name) THEN MapGet(acc.counts, name) ELSE 0) + 1),
        total |-> acc.total + 1]

\* one turn of the counting loop of stateAgg for the name of a row
CountState(acc, name) ==
  IF Falsy(name) THEN acc
  ELSE [counts |-> MapSet(acc.counts, name,
                          (IF MapHas(acc.counts, name) THEN MapGet(acc.counts, name) ELSE 0) + 1),
        total |-> acc.total + 1]

RECURSIVE StateCounts(_)
StateCounts(src) ==
  IF src = <<>> THEN [counts |-> <<>>, total |-> 0]
  ELSE CountState(StateCounts(SubSeq(src, 1, Len(src) - 1)), getRowStateName(src[Len(src)]))

\* if (pct > maxPct) maxPct = pct, over the entries in order
RECURSIVE MaxPctOf(_)
MaxPctOf(pcts) ==
  IF pcts = <<>> THEN FZero
  ELSE IF FGreater(pcts[Len(pcts)][2], MaxPctOf(SubSeq(pcts, 1, Len(pcts) - 1)))
       THEN pcts[Len(pcts)][2]
       ELSE MaxPctOf(SubSeq(pcts, 1, Len(pcts) - 1))

StatePcts(c) ==
  IF c.total > 0
  THEN [i \in DOMAIN c.counts |-> <<c.counts[i][1], Percent[c.counts[i][2], c.total]>>]
  ELSE <<>>

StateAggResult(c, pcts) ==
  [counts |-> c.counts, pcts |-> pcts, total |-> c.total, maxPct |-> MaxPctOf(pcts)]

\* the stateAgg memo for the rows of the map
StateAggOf(src) == StateAggResult(StateCounts(src), StatePcts(StateCounts(src)))

(***************************************************************************)
(* Price buckets                                                           *)
(***************************************************************************)
coercePrice(v) ==
  IF IsNullish(v) THEN NaN
  ELSE StringToNumber(trim(RemoveChars(String(v), {"$", ","})))

BUCKET_MIN == 30000
BUCKET_STEP == 5000
OVER_MIN == 110000

\* the bounds of a range: a number, -Infinity or Infinity
Finite(n) == [inf |-> 0, n |-> n]
NegInfinity == [inf |-> -1, n |-> 0]
PosInfinity == [inf |-> 1, n |-> 0]

\* `$${Math.round(n / 1000)}k`, for n >= 0
fmtK(n) == <<"$">> \o NatToChars((n + 500) \div 1000) \o <<"k">>

\* `$${(n / 1000).toFixed(1)}k`, for n >= 0 (n / 1000 to the nearest tenth)
fmtKDec(n) ==
  LET tenths == (n + 50) \div 100
  IN <<"$">> \o NatToChars(tenths \div 10) \o <<".">> \o NatToChars(tenths % 10) \o <<"k">>

bucketLabel(low, high) ==
  IF low = NegInfinity THEN L.Under30k
  ELSE IF high = PosInfinity THEN L.Over110k
  ELSE fmtK(low.n) \o <<" ", "t", "o", " ">> \o fmtKDec(high.n - 100)

\* the ranges pushed by the loop from low on
RECURSIVE StepRanges(_)
StepRanges(low) ==
  IF low < OVER_MIN
  THEN <<[low |-> Finite(low), high |-> Finite(low + BUCKET_STEP),
          label |-> bucketLabel(Finite(low), Finite(low + BUCKET_STEP))]>>
       \o StepRanges(low + BUCKET_STEP)
  ELSE <<>>

getFixedBucketRanges ==
  <<[low |-> NegInfinity, high |-> Finite(BUCKET_MIN),
     label |-> bucketLabel(NegInfinity, Finite(BUCKET_MIN))]>>
  \o StepRanges(BUCKET_MIN)
  \o <<[low |-> Finite(OVER_MIN), high |-> PosInfinity,
        label |-> bucketLabel(Finite(OVER_MIN), PosInfinity)]>>

\* the prices collected up to the first row without a finite price
RECURSIVE PriceVals_StopAtInvalid(_)
PriceVals_StopAtInvalid(rs) ==
  IF rs = <<>> \/ ~NumberIsFinite(coercePrice(Get(Head(rs), K.FIN_PRICE_UNEDITED))) THEN <<>>
  ELSE <<coercePrice(Get(Head(rs), K.FIN_PRICE_UNEDITED)).n>> \o PriceVals_StopAtInvalid(Tail(rs))

\* the finite prices of the rows, in order
RECURSIVE PriceVals(_)
PriceVals(rs) ==
  IF rs = <<>> THEN <<>>
  ELSE LET n == coercePrice(Get(rs[Len(rs)], K.FIN_PRICE_UNEDITED))
       IN PriceVals(SubSeq(rs, 1, Len(rs) - 1)) \o (IF NumberIsFinite(n) THEN <<n.n>> ELSE <<>>)

Min(a, b) == IF a < b THEN a ELSE b
Max(a, b) == IF a > b THEN a ELSE b

\* the index with both edges of the stepped range counted on the wrong side
BucketIndex_EdgesInclusive(v, nBuckets) ==
  IF v <= BUCKET_MIN THEN 0
  ELSE IF v > OVER_MIN THEN nBuckets - 1
  ELSE 1 + Max(0, Min((v - BUCKET_MIN) \div BUCKET_STEP,
                      (OVER_MIN - BUCKET_MIN) \div BUCKET_STEP - 1))

\* idx (from 0) of the bucket a price is counted in
BucketIndex(v, nBuckets) ==
  IF v < BUCKET_MIN THEN 0
  ELSE IF v >= OVER_MIN THEN nBuckets - 1
  ELSE 1 + Max(0, Min((v - BUCKET_MIN) \div BUCKET_STEP,
                      (OVER_MIN - BUCKET_MIN) \div BUCKET_STEP - 1))

buildBucketsForRows(rs) ==
  LET ranges == getFixedBucketRanges
      vals == PriceVals(rs)
      totalValid == Len(vals)
      count(i) == Cardinality({j \in DOMAIN vals : BucketIndex(vals[j], Len(ranges)) = i - 1})
  IN IF totalValid = 0 THEN [data |-> <<>>, totalValid |-> 0]
     ELSE [data |-> [i \in DOMAIN ranges |->
                       [label |-> ranges[i].label,
                        pct |-> Percent[count(i), totalValid],
                        count |-> count(i)]],
           totalValid |-> totalValid]

\* an array as a value that may also be undefined (groupOrder)
Arr(seq) == [t |-> "array", s |-> seq, n |-> 0]

\* groupingKey === "cluster" ? r.cluster : String(r.model)
GroupKeyOf(r, groupingKey) ==
  IF groupingKey = "cluster" THEN Get(r, K.cluster) ELSE Str(String(Get(r, K.model)))

\* byGroup.get(k).push(r), the group created on its first row
PushToGroup(byGroup, k, r) ==
  MapSet(byGroup, k, IF MapHas(byGroup, k) THEN Append(MapGet(byGroup, k), r) ELSE <<r>>)

\* the byGroup map of buildPriceSeriesByGroup: <<key, rows>> in insertion order
RECURSIVE GroupRows(_, _)
GroupRows(rs, groupingKey) ==
  IF rs = <<>> THEN <<>>
  ELSE PushToGroup(GroupRows(SubSeq(rs, 1, Len(rs) - 1), groupingKey),
                   GroupKeyOf(rs[Len(rs)], groupingKey), rs[Len(rs)])

\* the series pushed for one key: none when its bin list is empty
SeriesOfData(k, data) == IF Len(data) > 0 THEN <<[key |-> k, data |-> data]>> ELSE <<>>

RECURSIVE SeriesOfKeys(_, _)
SeriesOfKeys(keys, byGroup) ==
  IF keys = <<>> THEN <<>>
  ELSE SeriesOfData(Head(keys),
                    buildBucketsForRows(IF MapHas(byGroup, Head(keys))
                                        THEN MapGet(byGroup, Head(keys)) ELSE <<>>).data)
       \o SeriesOfKeys(Tail(keys), byGroup)

\* groupOrder ?? Array.from(byGroup.keys())
SeriesKeys(groupOrder, byGroup) ==
  IF IsNullish(groupOrder) THEN [i \in DOMAIN byGroup |-> byGroup[i][1]] ELSE groupOrder.s

buildPriceSeriesByGroup(rs, groupingKey, groupOrder) ==
  SeriesOfKeys(SeriesKeys(groupOrder, GroupRows(rs, groupingKey)), GroupRows(rs, groupingKey))

(***************************************************************************)
(* percentAgreeMappedPolicy                                                *)
(***************************************************************************)
AGREE_TOP3 == {toLowerCase(L.StronglyAgree), toLowerCase(L.Agree), toLowerCase(L.SomewhatAgree)}
AGREE_TOP2 == {toLowerCase(L.StronglyAgree), toLowerCase(L.SomewhatAgree)}

\* `${varName}_LABEL`, _TXT, _TEXT, _DESC, _LAB
AttAliases(varName) ==
  << varName \o <<"_", "L", "A", "B", "E", "L">>,
     varName \o <<"_", "T", "X", "T">>,
     varName \o <<"_", "T", "E", "X", "T">>,
     varName \o <<"_", "D", "E", "S", "C">>,
     varName \o <<"_", "L", "A", "B">> >>

\* v !== undefined && v !== null && String(v).trim() !== ""
IsPresent(v) == ~IsNullish(v) /\ trim(String(v)) # <<>>

getAttRaw(row, varName) ==
  LET aliases == AttAliases(varName)
      found == {i \in DOMAIN aliases : IsPresent(Get(row, aliases[i]))}
  IN IF IsPresent(Get(row, varName)) THEN Get(row, varName)
     ELSE IF found # {}
          THEN Get(row, aliases[CHOOSE i \in found : \A j \in found : i <= j])
          ELSE Null

normalizeLabel(s) == CollapseSpaces(toLowerCase(trim(String(Coalesce(s, Str(<<>>))))))

\* the label of a present raw value: the code map asked for the value, its
\* string and its number, else the string itself
LookupLabel(codeMap, raw, asStr, asNum) ==
  IF MapHas(codeMap, raw) THEN MapGet(codeMap, raw)
  ELSE IF MapHas(codeMap, asStr) THEN MapGet(codeMap, asStr)
  ELSE IF NumberIsFinite(asNum) /\ MapHas(codeMap, asNum) THEN MapGet(codeMap, asNum)
  ELSE IF NumberIsFinite(asNum) /\ MapHas(codeMap, Str(String(asNum)))
       THEN MapGet(codeMap, Str(String(asNum)))
  ELSE asStr

ResolveRaw(raw, codeMap) ==
  IF IsNullish(raw) THEN Null
  ELSE LookupLabel(codeMap, raw, Str(String(raw)), Number(Str(String(raw))))

resolveMappedLabel(row, varName) ==
  ResolveRaw(getAttRaw(row, varName), demoLookupsGet(varName))

\* the policy with /^STATE_/ tested without the i flag
agreePolicyFor_CaseSensitive(varName) ==
  IF varName = K.OL_MODEL_GRP THEN "LOYAL_ONLY"
  ELSE IF Len(varName) >= 6 /\ SubSeq(varName, 1, 6) = <<"S", "T", "A", "T", "E", "_">>
       THEN "TOP2"
       ELSE "TOP3"

agreePolicyFor(varName) ==
  IF varName = K.OL_MODEL_GRP THEN "LOYAL_ONLY"
  ELSE IF Len(varName) >= 6
          /\ toUpperCase(SubSeq(varName, 1, 6)) = <<"S", "T", "A", "T", "E", "_">>
       THEN "TOP2"
       ELSE "TOP3"

isTopNAgree(label, policy) ==
  LET s == normalizeLabel(label)
  IN IF policy = "LOYAL_ONLY" THEN s = toLowerCase(L.Loyal)
     ELSE IF policy = "TOP2" THEN s \in AGREE_TOP2
     ELSE s \in AGREE_TOP3

\* one turn of the loop of percentAgreeMappedPolicy for a row's label
CountLabel(acc, lab, policy) ==
  IF Falsy(lab) THEN [acc EXCEPT !.missing = @ + 1]
  ELSE [acc EXCEPT !.valid = @ + 1,
                   !.agree = @ + (IF isTopNAgree(lab, policy) THEN 1 ELSE 0)]

\* the loop of percentAgreeMappedPolicy: [agree, valid, missing]
RECURSIVE AgreeCounts(_, _)
AgreeCounts(rs, varName) ==
  IF rs = <<>> THEN [agree |-> 0, valid |-> 0, missing |-> 0]
  ELSE CountLabel(AgreeCounts(SubSeq(rs, 1, Len(rs) - 1), varName),
                  resolveMappedLabel(rs[Len(rs)], varName),
                  agreePolicyFor(varName))

\* agree / denom * 100, or NaN
PercentOrNaN(agree, denom) == IF denom > 0 THEN Percent[agree, denom] ELSE FNaN

\* the result with the missing rows always left out of the denominator
AgreeResult_ValidDenominator(c, includeMissingInDenom) ==
  PercentOrNaN(c.agree, c.valid)

\* the result for the counts of the loop
AgreeResult(c, includeMissingInDenom) ==
  PercentOrNaN(c.agree, IF includeMissingInDenom THEN c.valid + c.missing ELSE c.valid)

percentAgreeMappedPolicy(rs, varName, includeMissingInDenom) ==
  AgreeResult(AgreeCounts(rs, varName), includeMissingInDenom)

(***************************************************************************)
(* demoSummary                                                             *)
(***************************************************************************)
\* the fields of FIELD_GROUPS the model keeps, by group
FIELD_GROUPS(g) ==
  CASE g = "Demographics" -> <<K.DEMO_GENDER1, K.DEMO_INCOME>>
    [] g = "Financing" -> <<K.FIN_PU_APR, K.C1_PL>>
    [] OTHER -> <<>>

categoricalFinFields == {K.C1_PL, K.FIN_CREDIT}

coerceNumber(v) ==
  IF IsNullish(v) THEN NaN
  ELSE StringToNumber(RemoveChars(trim(String(v)), {","}))

\* a number of the model as a double
ToDouble(v) == IF v.t = "number" THEN FromInt(v.n) ELSE FNaN

\* the loop of the numeric branch: [sum, wsum, nValid, nMissing]
RECURSIVE NumericTotals(_, _)
NumericTotals(src, field) ==
  IF src = <<>> THEN [sum |-> FZero, wsum |-> 0, nValid |-> 0, nMissing |-> 0]
  ELSE LET acc == NumericTotals(SubSeq(src, 1, Len(src) - 1), field)
           num == coerceNumber(Get(src[Len(src)], field))
       IN IF NumberIsFinite(num)
          THEN [acc EXCEPT !.sum = FAdd(@, ToDouble(num)), !.wsum = @ + 1, !.nValid = @ + 1]
          ELSE [acc EXCEPT !.nMissing = @ + 1]

\* the label a present raw value is counted under
SummaryLabel(rawVal, codeMap) ==
  LET label == trim(String(rawVal))
      asNum == StringToNumber(label)
  IN IF MapHas(codeMap, rawVal) THEN MapGet(codeMap, rawVal)
     ELSE IF MapHas(codeMap, Str(String(rawVal))) THEN MapGet(codeMap, Str(String(rawVal)))
     ELSE IF MapHas(codeMap, Number(rawVal)) THEN MapGet(codeMap, Number(rawVal))
     ELSE IF NumberIsFinite(asNum) /\ MapHas(codeMap, asNum) THEN MapGet(codeMap, asNum)
     ELSE IF MapHas(codeMap, Str(String(asNum))) THEN MapGet(codeMap, Str(String(asNum)))
     ELSE Str(label)

IsMissingValue(rawVal) == IsNullish(rawVal) \/ trim(String(rawVal)) = <<>>

\* the counting loop of the categorical branch: [counts, validCount, missingCount]
RECURSIVE CategoryCounts(_, _)
CategoryCounts(src, field) ==
  IF src = <<>> THEN [counts |-> <<>>, validCount |-> 0, missingCount |-> 0]
  ELSE LET acc == CategoryCounts(SubSeq(src, 1, Len(src) - 1), field)
           rawVal == Get(src[Len(src)], field)
           label == SummaryLabel(rawVal, demoLookupsGet(field))
           old == IF MapHas(acc.counts, label) THEN MapGet(acc.counts, label) ELSE 0
       IN IF IsMissingValue(rawVal) THEN [acc EXCEPT !.missingCount = @ + 1]
          ELSE [acc EXCEPT !.counts = MapSet(@, label, old + 1), !.validCount = @ + 1]

\* the items left in the order of their first appearance
SortItemsByCount_Unsorted(items) == items

\* items.sort((a, b) => b.count - a.count), a stable sort
RECURSIVE SortItemsByCount(_)
SortItemsByCount(items) ==
  IF items = <<>> THEN <<>>
  ELSE LET sorted == SortItemsByCount(SubSeq(items, 1, Len(items) - 1))
           x == items[Len(items)]
           keep == Cardinality({i \in DOMAIN sorted :
                                  \A j \in 1..i : sorted[j].count >= x.count})
       IN SubSeq(sorted, 1, keep) \o <<x>> \o SubSeq(sorted, keep + 1, Len(sorted))

\* items.reduce((a, b) => a + b.pct, 0)
RECURSIVE SumPct(_)
SumPct(items) ==
  IF items = <<>> THEN FZero
  ELSE FAdd(SumPct(SubSeq(items, 1, Len(items) - 1)), items[Len(items)].pct)

\* the drift correction with the counts summed in place of the percentages
DriftCorrected_SumsCounts(items) ==
  LET sumPct == FromInt(Len(items))
      far == FGreater(FAbs(FSub(sumPct, FromInt(100))), FDiv(FromInt(1), FromInt(10)))
  IN IF far /\ Len(items) > 0
     THEN [items EXCEPT ![Len(items)].pct = FAdd(@, FSub(FromInt(100), sumPct))]
     ELSE items

\* the drift correction: the last item takes 100 - sumPct when the sum is
\* more than 0.1 away from 100
DriftCorrected(items) ==
  LET sumPct == SumPct(items)
      far == FGreater(FAbs(FSub(sumPct, FromInt(100))), FDiv(FromInt(1), FromInt(10)))
  IN IF far /\ Len(items) > 0
     THEN [items EXCEPT ![Len(items)].pct = FAdd(@, FSub(FromInt(100), sumPct))]
     ELSE items

\* the items with the percentages taken over the valid rows only
CategoricalItems_ValidDenominator(cc) ==
  LET fieldTotal == cc.validCount
      labelled == SortItemsByCount(
        [i \in DOMAIN cc.counts |->
           [label |-> cc.counts[i][1], count |-> cc.counts[i][2],
            pct |-> Percent[cc.counts[i][2], fieldTotal]]])
      unknown == IF cc.missingCount > 0
                 THEN <<[label |-> Str(L.Unknown), count |-> cc.missingCount,
                         pct |-> Percent[cc.missingCount, fieldTotal]]>>
                 ELSE <<>>
  IN DriftCorrected(labelled \o unknown)

\* the items of a categorical section
CategoricalItems(cc) ==
  LET fieldTotal == cc.validCount + cc.missingCount
      labelled == SortItemsByCount(
        [i \in DOMAIN cc.counts |->
           [label |-> cc.counts[i][1], count |-> cc.counts[i][2],
            pct |-> Percent[cc.counts[i][2], fieldTotal]]])
      unknown == IF cc.missingCount > 0
                 THEN <<[label |-> Str(L.Unknown), count |-> cc.missingCount,
                         pct |-> Percent[cc.missingCount, fieldTotal]]>>
                 ELSE <<>>
  IN DriftCorrected(labelled \o unknown)

NoKpi == [value |-> FNaN, nValid |-> 0, nMissing |-> 0]

\* the sections pushed for one field: none, a numeric one or a categorical
\* one (the display text of the average is not modelled)
FieldSections(src, field, selectedFieldGroup) ==
  LET isFinancingNumeric ==
        selectedFieldGroup = "Financing" /\ field \notin categoricalFinFields
      nt == NumericTotals(src, field)
      cc == CategoryCounts(src, field)
  IN IF isFinancingNumeric /\ nt.nValid > 0
     THEN <<[field |-> field, mode |-> "numeric", items |-> <<>>, total |-> 0,
             kpi |-> [value |-> IF nt.wsum > 0 THEN FDiv(nt.sum, FromInt(nt.wsum)) ELSE FNaN,
                      nValid |-> nt.nValid, nMissing |-> nt.nMissing]]>>
     ELSE IF cc.validCount + cc.missingCount = 0 THEN <<>>
     ELSE <<[field |-> field, mode |-> "categorical", items |-> CategoricalItems(cc),
             total |-> cc.validCount + cc.missingCount, kpi |-> NoKpi]>>

\* b.items?.[0]?.pct || 0
FirstPct(sec) ==
  IF sec.items = <<>> \/ sec.items[1].pct.nan THEN FZero ELSE sec.items[1].pct

\* the comparator of sections.sort is positive: a goes after b
SectionAfter(a, b) ==
  IF a.mode # b.mode THEN a.mode # "numeric"
  ELSE FGreater(FSub(FirstPct(b), FirstPct(a)), FZero)

RECURSIVE SortSections(_)
SortSections(secs) ==
  IF secs = <<>> THEN <<>>
  ELSE LET sorted == SortSections(SubSeq(secs, 1, Len(secs) - 1))
           x == secs[Len(secs)]
           keep == Cardinality({i \in DOMAIN sorted :
                                  \A j \in 1..i : ~SectionAfter(sorted[j], x)})
       IN SubSeq(sorted, 1, keep) \o <<x>> \o SubSeq(sorted, keep + 1, Len(sorted))

RECURSIVE SectionsOf(_, _, _)
SectionsOf(src, fields, selectedFieldGroup) ==
  IF fields = <<>> THEN <<>>
  ELSE FieldSections(src, Head(fields), selectedFieldGroup)
       \o SectionsOf(src, Tail(fields), selectedFieldGroup)

\* the demoSummary memo for the rows srcAll and a field group
demoSummary(src, selectedFieldGroup) ==
  SortSections(SectionsOf(src, FIELD_GROUPS(selectedFieldGroup), selectedFieldGroup))

\* ---- the demoSummary memo ----
MaxSummaryRows == 3

FieldGroupNames == {"Demographics", "Financing"}

\* the values a row holds for the summarised field (Undefined: no such key)
SummaryValues ==
  { Undefined, Null, Str(<<>>), Str(<<" ">>), Num(1), Str(<<"2">>),
    Str(<<"x">>), Str(L.Unknown) }

SummaryRow(field, v) == IF v = Undefined THEN <<>> ELSE (field :> v)

InitSummary ==
  /\ Idle
  /\ \E g \in FieldGroupNames, k \in 0..MaxSummaryRows :
       \E f \in Range(FIELD_GROUPS(g)), vs \in [1..k -> SummaryValues] :
         call = [op |-> "demoSummary", selectedFieldGroup |-> g,
                 srcAll |-> [i \in 1..k |-> SummaryRow(f, vs[i])]]

CallSummary ==
  /\ call.op = "demoSummary" /\ ~ret.done
  /\ ret' = Ret(demoSummary(call.srcAll, call.selectedFieldGroup))
  /\ UNCHANGED <<uiVars, call, simVars>>

SpecSummary == InitSummary /\ [][CallSummary]_vars

SummaryDone == call.op = "demoSummary" /\ ret.done

\* the categorical sections of the returned summary
CategoricalSections ==
  IF SummaryDone
  THEN {ret.value[i] : i \in {j \in DOMAIN ret.value : ret.value[j].mode = "categorical"}}
  ELSE {}

NumericSections ==
  IF SummaryDone
  THEN {ret.value[i] : i \in {j \in DOMAIN ret.value : ret.value[j].mode = "numeric"}}
  ELSE {}

Tenth == FDiv(FromInt(1), FromInt(10))

IsBlank(v) ==
  \/ v.t \in {"undefined", "null"}
  \/ v.t = "string" /\ \A i \in DOMAIN v.s : IsSpace(v.s[i])

MissingRows(src, field) == Cardinality({i \in DOMAIN src : IsBlank(Get(src[i], field))})

RECURSIVE SumCounts(_)
SumCounts(items) ==
  IF items = <<>> THEN 0 ELSE Head(items).count + SumCounts(Tail(items))

TotalsAndPct(sec) ==
  /\ sec.total = Len(call.srcAll)
  /\ SumCounts(sec.items) = sec.total
  /\ \A i \in DOMAIN sec.items :
       FEq(sec.items[i].pct, Percent[sec.items[i].count, sec.total])

\* C6 as stated: total is the number of rows, the counts sum to it, each pct
\* is count / total * 100, and an item labelled 'Unknown' is present iff some
\* row is missing the field, counting those rows.
C6_UnknownItemIffMissing ==
  \A sec \in CategoricalSections :
    LET missing == MissingRows(call.srcAll, sec.field)
        unknowns == {i \in DOMAIN sec.items : sec.items[i].label = Str(L.Unknown)}
    IN /\ TotalsAndPct(sec)
       /\ (unknowns # {}) <=> (missing > 0)
       /\ \A i \in unknowns : sec.items[i].count = missing

\* C6, amended: total is the number of rows, the counts sum to it, each pct is
\* count / total * 100, and the items counted from present values are
\* followed by one last item labelled 'Unknown' counting the missing rows iff
\* some row is missing the field (a present value may itself read 'Unknown').
C6_UnknownItemLastIffMissing ==
  \A sec \in CategoricalSections :
    LET missing == MissingRows(call.srcAll, sec.field)
        n == Len(sec.items)
        present == IF missing > 0 THEN SubSeq(sec.items, 1, n - 1) ELSE sec.items
    IN /\ TotalsAndPct(sec)
       /\ SumCounts(present) = sec.total - missing
       /\ missing > 0 =>
            /\ n > 0
            /\ sec.items[n].label = Str(L.Unknown)
            /\ sec.items[n].count = missing

\* a section with an item for a resolved label and the item of missing rows
C6_Witness ==
  \E sec \in CategoricalSections :
    /\ Len(sec.items) >= 2
    /\ sec.items[1].label = Str(L.Male)
    /\ sec.items[Len(sec.items)].label = Str(L.Unknown)
    /\ MissingRows(call.srcAll, sec.field) > 0

\* the value is a number or a string that reads as one
IsCoercibleNumber(v) ==
  /\ ~IsBlank(v)
  /\ coerceNumber(v).t = "number"

RECURSIVE SumCoercible(_, _)
SumCoercible(src, field) ==
  IF src = <<>> THEN 0
  ELSE LET v == Get(Head(src), field)
       IN (IF IsCoercibleNumber(v) THEN coerceNumber(v).n ELSE 0)
          + SumCoercible(Tail(src), field)

\* C7: a numeric-policy Financing field with a coercible value gets a numeric
\* section whose average is the mean of the coercible values, nValid their
\* number and nMissing the number of all other rows (missing, blank or
\* non-numeric); with no coercible value it has no numeric section.
C7_MeanOverCoercibleOnly ==
  (SummaryDone /\ call.selectedFieldGroup = "Financing") =>
    \A f \in Range(FIELD_GROUPS("Financing")) \ categoricalFinFields :
      LET src == call.srcAll
          valid == Cardinality({i \in DOMAIN src : IsCoercibleNumber(Get(src[i], f))})
          secs == {sec \in NumericSections : sec.field = f}
      IN IF valid = 0 THEN secs = {}
         ELSE \E sec \in secs :
                /\ sec.kpi.nValid = valid
                /\ sec.kpi.nMissing = Len(src) - valid
                /\ FEq(sec.kpi.value, FDiv(FromInt(SumCoercible(src, f)), FromInt(valid)))

\* ---- percentAgreeMappedPolicy ----
MaxAgreeRows == 2

\* field names: the loyalty field, STATE_ names in both cases, a mapped
\* attitude field and names that only resemble the special ones
AgreeVarNames ==
  { K.OL_MODEL_GRP, K.STATE_REFER, toLowerCase(K.STATE_REFER), K.PV_VALUE,
    toLowerCase(K.OL_MODEL_GRP), <<"X">> \o K.STATE_REFER, <<"S", "T", "A", "T", "E">> }

AgreeTexts ==
  { L.StronglyAgree, L.SomewhatAgree, L.Agree, L.Loyal, L.Disagree,
    <<"S", "t", "r", "o", "n", "g", "l", "y", " ", "\t", "A", "g", "r", "e", "e">>,
    <<"A", "g", "r", "e", "e", "d">> }

\* each text as it is, in upper case, in lower case and padded
AgreeLabels ==
  UNION {{Str(t), Str(toUpperCase(t)), Str(toLowerCase(t)), Str(<<" ">> \o t \o <<"\n">>)} :
           t \in AgreeTexts}

\* the values a row holds for the field: nothing, blank, codes and texts
AgreeValues ==
  { Undefined, Null, Str(<<" ">>), Num(5), Str(<<"4">>), Num(9), Num(0),
    Str(L.Agree), Str(<<" ">> \o toUpperCase(L.SomewhatAgree)), Str(L.Loyal), Str(L.Disagree) }

\* rows holding the field, and rows holding only an alias of it
AgreeRowsFor(varName) ==
  {SummaryRow(varName, v) : v \in AgreeValues}
  \cup {(varName :> Null) @@ (AttAliases(varName)[1] :> Str(L.Agree)),
        (AttAliases(varName)[3] :> Str(L.Disagree)) @@ (AttAliases(varName)[5] :> Str(L.Loyal))}

InitAgree ==
  /\ Idle
  /\ \/ \E varName \in AgreeVarNames, k \in 0..MaxAgreeRows, inc \in BOOLEAN :
          \E rs \in [1..k -> AgreeRowsFor(varName)] :
            call = [op |-> "percentAgreeMappedPolicy", rows |-> rs, varName |-> varName,
                    includeMissingInDenom |-> inc]
     \/ \E varName \in AgreeVarNames, label \in AgreeLabels \cup {Null, Str(<<>>)} :
          call = [op |-> "isTopNAgree", label |-> label, varName |-> varName]

CallPercentAgree ==
  /\ call.op = "percentAgreeMappedPolicy" /\ ~ret.done
  /\ ret' = Ret(percentAgreeMappedPolicy(call.rows, call.varName, call.includeMissingInDenom))
  /\ UNCHANGED <<uiVars, call, simVars>>

\* isTopNAgree(lab, policy) with policy = agreePolicyFor(varName)
CallIsTopNAgree ==
  /\ call.op = "isTopNAgree" /\ ~ret.done
  /\ ret' = Ret(isTopNAgree(call.label, agreePolicyFor(call.varName)))
  /\ UNCHANGED <<uiVars, call, simVars>>

SpecAgree == InitAgree /\ [][CallPercentAgree \/ CallIsTopNAgree]_vars

\* the row has a label: a present raw value that does not map to an empty one
HasLabel(row, varName) ==
  LET lab == resolveMappedLabel(row, varName)
  IN lab.t = "string" /\ lab.s # <<>>

AgreeingRows(rs, varName) ==
  Cardinality({i \in DOMAIN rs :
                 /\ HasLabel(rs[i], varName)
                 /\ isTopNAgree(resolveMappedLabel(rs[i], varName), agreePolicyFor(varName))})

LabelledRows(rs, varName) == Cardinality({i \in DOMAIN rs : HasLabel(rs[i], varName)})

\* C8: the result is agree / denominator * 100, the denominator being all
\* rows by default and the labelled rows with includeMissingInDenom = false;
\* it is NaN exactly when the denominator is zero and otherwise in [0, 100].
C8_PercentAgreeRange ==
  (call.op = "percentAgreeMappedPolicy" /\ ret.done) =>
    LET denom == IF call.includeMissingInDenom THEN Len(call.rows)
                 ELSE LabelledRows(call.rows, call.varName)
        agree == AgreeingRows(call.rows, call.varName)
    IN /\ ret.value.nan <=> denom = 0
       /\ denom > 0 =>
            /\ FEq(ret.value, Percent[agree, denom])
            /\ ~FLess(ret.value, FZero)
            /\ ~FGreater(ret.value, FromInt(100))

\* two rows, one agreeing and one without a label, give 50 by default
C8_Witness ==
  /\ call.op = "percentAgreeMappedPolicy" /\ ret.done
  /\ call.includeMissingInDenom
  /\ Len(call.rows) = 2
  /\ LabelledRows(call.rows, call.varName) = 1
  /\ FEq(ret.value, FromInt(50))

\* the name begins with STATE_ in any letter case
StartsWithState(varName) ==
  /\ Len(varName) >= 6
  /\ \A i \in 1..6 : LowerChar(varName[i]) = <<"s", "t", "a", "t", "e", "_">>[i]

\* the label without leading and trailing white space, in lower case, with
\* each run of white space read as one blank
RECURSIVE Words(_)
Words(s) ==
  LET t == TrimLeft(s)
      n == IF \E i \in DOMAIN t : IsSpace(t[i])
           THEN (CHOOSE i \in DOMAIN t : IsSpace(t[i]) /\ \A j \in 1..(i - 1) : ~IsSpace(t[j])) - 1
           ELSE Len(t)
  IN IF t = <<>> THEN <<>>
     ELSE <<[i \in 1..n |-> LowerChar(t[i])]>> \o Words(SubSeq(t, n + 1, Len(t)))

LabelWords(label) == IF label.t = "string" THEN Words(label.s) ELSE <<>>

\* C9: OL_MODEL_GRP agrees iff the label is 'loyal'; a name beginning with
\* STATE_ in any letter case iff it is 'strongly agree' or 'somewhat agree';
\* every other name iff it is one of those or 'agree'; the label being read
\* trimmed, in lower case and with white-space runs collapsed.
C9_PolicyByFieldName ==
  (call.op = "isTopNAgree" /\ ret.done) =>
    LET w == LabelWords(call.label)
        top2 == w \in {<<toLowerCase(<<"S", "t", "r", "o", "n", "g", "l", "y">>), toLowerCase(L.Agree)>>,
                       <<toLowerCase(<<"S", "o", "m", "e", "w", "h", "a", "t">>), toLowerCase(L.Agree)>>}
        expected == IF call.varName = K.OL_MODEL_GRP THEN w = <<toLowerCase(L.Loyal)>>
                    ELSE IF StartsWithState(call.varName) THEN top2
                    ELSE top2 \/ w = <<toLowerCase(L.Agree)>>
    IN ret.value = expected

\* a lower-case state_ name rejects the padded label 'Agree' that other names accept
C9_Witness ==
  /\ call.op = "isTopNAgree" /\ ret.done
  /\ call.varName = toLowerCase(K.STATE_REFER)
  /\ call.label = Str(<<" ">> \o L.Agree \o <<"\n">>)
  /\ ret.value = FALSE

\* ---- buildBucketsForRows ----
MaxBucketRows == 2

\* every edge of the bins, the price just below some of them, prices written
\* as text, and values that are no price
PriceValues ==
  {Num(BUCKET_MIN + BUCKET_STEP * k) : k \in 0..16}
  \cup {Num(BUCKET_MIN + BUCKET_STEP * k - 1) : k \in {0, 1, 16}}
  \cup { Undefined, Null, Str(<<>>), Str(<<" ">>), Num(250000),
         Str(<<"$", "2", "9", ",", "9", "9", "9">>),
         Str(<<"$", "3", "5", ",", "2", "0", "0">>),
         Str(<<" ", "4", "2", "0", "0", "0", " ">>),
         Str(<<"n", "/", "a">>) }

\* normalized rows of two models and two clusters, with and without a price
SeriesRows ==
  { Spread((K.model :> Str(m)) @@ (K.cluster :> Num(c)), SummaryRow(K.FIN_PRICE_UNEDITED, v)) :
      m \in {<<"A">>, <<"B">>}, c \in {1, 2},
      v \in {Undefined, Str(<<>>), Str(<<"n", "/", "a">>), Num(35000)} }

\* no order given, or an order naming a key without rows
GroupOrders(groupingKey) ==
  { Undefined,
    IF groupingKey = "cluster" THEN Arr(<<Num(2), Num(3), Num(1)>>)
    ELSE Arr(<<Str(<<"B">>), Str(<<"C">>), Str(<<"A">>)>>) }

InitBuckets ==
  /\ Idle
  /\ \/ \E k \in 0..MaxBucketRows : \E vs \in [1..k -> PriceValues] :
          call = [op |-> "buildBucketsForRows",
                  rows |-> [i \in 1..k |-> SummaryRow(K.FIN_PRICE_UNEDITED, vs[i])]]
     \/ \E k \in 0..MaxBucketRows, groupingKey \in {"cluster", "model"} :
          \E rs \in [1..k -> SeriesRows], groupOrder \in GroupOrders(groupingKey) :
            call = [op |-> "buildPriceSeriesByGroup", rows |-> rs,
                    groupingKey |-> groupingKey, groupOrder |-> groupOrder]

CallSeries ==
  /\ call.op = "buildPriceSeriesByGroup" /\ ~ret.done
  /\ ret' = Ret(buildPriceSeriesByGroup(call.rows, call.groupingKey, call.groupOrder))
  /\ UNCHANGED <<uiVars, call, simVars>>

CallBuckets ==
  /\ call.op = "buildBucketsForRows" /\ ~ret.done
  /\ ret' = Ret(buildBucketsForRows(call.rows))
  /\ UNCHANGED <<uiVars, call, simVars>>

SpecBuckets == InitBuckets /\ [][CallBuckets \/ CallSeries]_vars

\* the bin (from 1) the claim gives a price
ClaimedBin(v) ==
  IF v < 30000 THEN 1
  ELSE IF v >= 110000 THEN 18
  ELSE 2 + (v - 30000) \div 5000

\* C10: a result with valid prices has 18 bins, the first below 30000,
\* sixteen of width 5000 from 30000 and the last from 110000; every valid
\* price is counted in the bin of its value, so the counts sum to totalValid
\* and each pct is count / totalValid * 100.
C10_EighteenFixedBins ==
  (call.op = "buildBucketsForRows" /\ ret.done /\ ret.value.totalValid > 0) =>
    LET data == ret.value.data
        vals == PriceVals(call.rows)
        ranges == getFixedBucketRanges
    IN /\ Len(data) = 18 /\ Len(ranges) = 18
       /\ ranges[1].low = NegInfinity /\ ranges[1].high = Finite(30000)
       /\ \A k \in 0..15 :
            /\ ranges[k + 2].low = Finite(30000 + 5000 * k)
            /\ ranges[k + 2].high = Finite(30000 + 5000 * (k + 1))
       /\ ranges[18].low = Finite(110000) /\ ranges[18].high = PosInfinity
       /\ data[1].label = L.Under30k
       /\ data[3].label = <<"$", "3", "5", "k", " ", "t", "o", " ", "$", "3", "9", ".", "9", "k">>
       /\ ret.value.totalValid = Len(vals)
       /\ \A i \in 1..18 :
            /\ data[i].count = Cardinality({j \in DOMAIN vals : ClaimedBin(vals[j]) = i})
            /\ FEq(data[i].pct, Percent[data[i].count, Len(vals)])
       /\ SumCounts(data) = Len(vals)

\* '$29,999' and '$35,200' fall in the first and the third bin, 50% each
C10_Witness ==
  /\ call.op = "buildBucketsForRows" /\ ret.done
  /\ Len(call.rows) = 2
  /\ Get(call.rows[1], K.FIN_PRICE_UNEDITED) = Str(<<"$", "2", "9", ",", "9", "9", "9">>)
  /\ Get(call.rows[2], K.FIN_PRICE_UNEDITED) = Str(<<"$", "3", "5", ",", "2", "0", "0">>)
  /\ ret.value.data[1].count = 1 /\ FEq(ret.value.data[1].pct, FromInt(50))
  /\ ret.value.data[3].count = 1 /\ FEq(ret.value.data[3].pct, FromInt(50))

\* the value reads as a number once '$' and ',' are stripped: not absent,
\* null, empty, blank or other text
IsCoerciblePrice(v) ==
  /\ ~IsNullish(v)
  /\ trim(RemoveChars(String(v), {"$", ","})) # <<>>
  /\ StringToNumber(RemoveChars(String(v), {"$", ","})).t = "number"

CoerciblePrices(rs) ==
  Cardinality({i \in DOMAIN rs : IsCoerciblePrice(Get(rs[i], K.FIN_PRICE_UNEDITED))})

\* C11: totalValid and the bucket counts cover exactly the rows whose price is
\* coercible; a row whose price is absent, null, empty, blank or non-numeric
\* is counted nowhere.
C11_NonCoercibleExcluded ==
  (call.op = "buildBucketsForRows" /\ ret.done) =>
    /\ ret.value.totalValid = CoerciblePrices(call.rows)
    /\ SumCounts(ret.value.data) = CoerciblePrices(call.rows)

\* C12: without a valid price the bin list is empty and totalValid is 0; with
\* one, all 18 bins come in the fixed order with the fixed labels, empty bins
\* with count 0 and pct 0; the series holds, in key order, exactly the groups
\* with a valid price, each with its 18 bins.
C12_EmptyOrAllBins ==
  /\ (call.op = "buildBucketsForRows" /\ ret.done) =>
       IF CoerciblePrices(call.rows) = 0
       THEN ret.value.data = <<>> /\ ret.value.totalValid = 0
       ELSE /\ Len(ret.value.data) = 18
            /\ \A i \in 1..18 :
                 /\ ret.value.data[i].label = getFixedBucketRanges[i].label
                 /\ ret.value.data[i].count = 0 => FEq(ret.value.data[i].pct, FZero)
            /\ ret.value.data[1].label = L.Under30k
            /\ ret.value.data[2].label
                 = <<"$", "3", "0", "k", " ", "t", "o", " ", "$", "3", "4", ".", "9", "k">>
            /\ ret.value.data[18].label = L.Over110k
  /\ (call.op = "buildPriceSeriesByGroup" /\ ret.done) =>
       LET keys == SeriesKeys(call.groupOrder, GroupRows(call.rows, call.groupingKey))
           HasPrice(k) ==
             \E i \in DOMAIN call.rows :
               /\ GroupKeyOf(call.rows[i], call.groupingKey) = k
               /\ IsCoerciblePrice(Get(call.rows[i], K.FIN_PRICE_UNEDITED))
       IN /\ [i \in DOMAIN ret.value |-> ret.value[i].key] = SelectSeq(keys, HasPrice)
          /\ \A i \in DOMAIN ret.value : Len(ret.value[i].data) = 18

\* ---- buildBucketsForRows on reordered rows ----
MaxPermRows == 3

PermValues ==
  { Null, Str(<<"n", "/", "a">>), Str(<<"$", "2", "9", ",", "9", "9", "9">>),
    Num(35000), Num(110000) }

InitPermute ==
  /\ Idle
  /\ \E k \in 0..MaxPermRows : \E vs \in [1..k -> PermValues] :
       call = [op |-> "buildBucketsForRows",
               rows |-> [i \in 1..k |-> SummaryRow(K.FIN_PRICE_UNEDITED, vs[i])]]

SpecPermute == InitPermute /\ [][CallBuckets]_vars

RowOrders(n) == {p \in [1..n -> 1..n] : \A i, j \in 1..n : p[i] = p[j] => i = j}

\* C13: the buckets of every reordering of the rows equal the buckets of the
\* rows: the same counts, percentages, labels and totalValid.
C13_OrderIndependent ==
  (call.op = "buildBucketsForRows" /\ ret.done) =>
    \A p \in RowOrders(Len(call.rows)) :
      buildBucketsForRows([i \in DOMAIN call.rows |-> call.rows[p[i]]]) = ret.value

\* three rows in three different positions: a price under 30000, one without
\* a price, one at 110000
C13_Witness ==
  /\ call.op = "buildBucketsForRows" /\ ret.done
  /\ Len(call.rows) = 3
  /\ Get(call.rows[1], K.FIN_PRICE_UNEDITED) = Str(<<"$", "2", "9", ",", "9", "9", "9">>)
  /\ Get(call.rows[2], K.FIN_PRICE_UNEDITED) = Null
  /\ Get(call.rows[3], K.FIN_PRICE_UNEDITED) = Num(110000)
  /\ ret.value.totalValid = 2
  /\ ret.value.data[1].count = 1 /\ ret.value.data[18].count = 1

\* ---- getRowStateName and stateAgg ----
MaxStateRows == 3

\* values under a state key: none, blank, an abbreviation in lower case, a
\* name, other text, codes of ADMARK_STATE and text holding an abbreviation
StateValues ==
  { Undefined, Str(<<" ">>), Str(<<"t", "x">>), Str(L.Ohio), Str(<<"z", "z">>),
    Num(44), Str(<<"3", "6">>), Str(<<"A", "u", "s", "t", "i", "n", " ", "T", "X">>) }

StateRows ==
  { Spread(Spread(SummaryRow(K.ADMARK_STATE, a), SummaryRow(K.admark_state, b)),
           Spread(SummaryRow(K.State, c), SummaryRow(K.st, d))) :
      a \in StateValues, b \in StateValues, c \in StateValues, d \in StateValues }

\* the rows aggregated: without a state, resolving to one of three states in
\* several ways, or holding text that resolves to none
AggRows ==
  { <<>>, K.State :> Str(<<"t", "x">>), K.State :> Str(L.Ohio), K.State :> Str(<<"z", "z">>),
    K.ADMARK_STATE :> Num(44), K.ADMARK_STATE :> Str(<<"3", "6">>),
    K.st :> Str(<<"I", "N">>) }

InitStates ==
  /\ Idle
  /\ \/ \E row \in StateRows : call = [op |-> "getRowStateName", row |-> row]
     \/ \E k \in 0..MaxStateRows : \E rs \in [1..k -> AggRows] :
          call = [op |-> "stateAgg", mapSourceRows |-> rs]

CallGetRowStateName ==
  /\ call.op = "getRowStateName" /\ ~ret.done
  /\ ret' = Ret(getRowStateName(call.row))
  /\ UNCHANGED <<uiVars, call, simVars>>

CallStateAgg ==
  /\ call.op = "stateAgg" /\ ~ret.done
  /\ ret' = Ret(StateAggOf(call.mapSourceRows))
  /\ UNCHANGED <<uiVars, call, simVars>>

SpecStates == InitStates /\ [][CallGetRowStateName \/ CallStateAgg]_vars

\* C14: only rows with a state name are counted: total is their number and
\* the sum of the per-state counts, each state's count is the number of rows
\* resolving to it, its pct is count / total * 100, maxPct is the largest pct,
\* and without any resolving row total is 0, pcts is empty and maxPct is 0.
C14_StateAggCountsResolvedRows ==
  (call.op = "stateAgg" /\ ret.done) =>
    LET src == call.mapSourceRows
        agg == ret.value
        resolved == {i \in DOMAIN src : getRowStateName(src[i]) # Null}
    IN /\ agg.total = Cardinality(resolved)
       /\ \A i \in DOMAIN agg.counts :
            /\ agg.counts[i][1].s \in Range(US_STATE_NAME_SET)
            /\ agg.counts[i][2]
                 = Cardinality({j \in resolved : getRowStateName(src[j]) = agg.counts[i][1]})
            /\ \A j \in DOMAIN agg.counts : agg.counts[i][1] = agg.counts[j][1] => i = j
       /\ \A j \in resolved : \E i \in DOMAIN agg.counts : agg.counts[i][1] = getRowStateName(src[j])
       /\ IF agg.total = 0
          THEN agg.pcts = <<>> /\ agg.counts = <<>> /\ FEq(agg.maxPct, FZero)
          ELSE /\ Len(agg.pcts) = Len(agg.counts)
               /\ \A i \in DOMAIN agg.pcts :
                    /\ agg.pcts[i][1] = agg.counts[i][1]
                    /\ FEq(agg.pcts[i][2], Percent[agg.counts[i][2], agg.total])
                    /\ ~FGreater(agg.pcts[i][2], agg.maxPct)
               /\ \E i \in DOMAIN agg.pcts : FEq(agg.pcts[i][2], agg.maxPct)

\* three rows, two resolving to Texas in different ways and one resolving to
\* no state: total 2, one state at 100
C14_Witness ==
  /\ call.op = "stateAgg" /\ ret.done
  /\ Len(call.mapSourceRows) = 3
  /\ ret.value.total = 2
  /\ ret.value.counts = << <<Str(L.Texas), 2>> >>
  /\ FEq(ret.value.maxPct, FromInt(100))

\* the text as a 2-letter upper-case abbreviation standing alone in val
HasToken(val, ab) ==
  \E i \in 1..(Len(val) - 1) :
    /\ SubSeq(val, i, i + 1) = ab
    /\ (i = 1 \/ ~IsWordChar(val[i - 1]))
    /\ (i + 1 = Len(val) \/ ~IsWordChar(val[i + 2]))

\* the names a text may resolve to: by abbreviation, by exact name (in any
\* letter case) or by a 2-letter token
NamesOfText(val) ==
  {US_STATE_ABBR_TO_NAME[i][2] : i \in {j \in DOMAIN US_STATE_ABBR_TO_NAME :
      \/ toUpperCase(val) = US_STATE_ABBR_TO_NAME[j][1]
      \/ toLowerCase(val) = toLowerCase(US_STATE_ABBR_TO_NAME[j][2])
      \/ HasToken(val, US_STATE_ABBR_TO_NAME[j][1])}}

\* the label of an ADMARK_STATE code, or the value itself without one
AdmarkLabel(raw) ==
  LET hits == {i \in DOMAIN demosMapping :
                 /\ demosMapping[i][K.NAME] = Str(K.ADMARK_STATE)
                 /\ String(demosMapping[i][K.START]) = trim(String(raw))}
  IN IF hits = {} THEN trim(String(raw))
     ELSE demosMapping[CHOOSE i \in hits : TRUE][K.LABEL].s

\* the names the value under a key may resolve to
NamesAtKey(row, k) ==
  IF IsBlank(Get(row, k)) THEN {}
  ELSE IF k = K.ADMARK_STATE THEN NamesOfText(AdmarkLabel(Get(row, k)))
  ELSE NamesOfText(trim(String(Get(row, k))))

\* C15: the result is the name resolved from the first key, in STATE_KEYS
\* order, whose non-blank value resolves (by abbreviation, exact name or
\* 2-letter token, for ADMARK_STATE after the code lookup); it is null only
\* when no key resolves, and always null or one of the fixed state names.
C15_FirstResolvingKeyWins ==
  (call.op = "getRowStateName" /\ ret.done) =>
    LET resolving == {i \in DOMAIN STATE_KEYS : NamesAtKey(call.row, STATE_KEYS[i]) # {}}
        first == CHOOSE i \in resolving : \A j \in resolving : i <= j
    IN /\ ret.value = Null \/ (ret.value.t = "string" /\ ret.value.s \in Range(US_STATE_NAME_SET))
       /\ IF resolving = {} THEN ret.value = Null
          ELSE ret.value.t = "string" /\ ret.value.s \in NamesAtKey(call.row, STATE_KEYS[first])

\* an unmapped code under ADMARK_STATE and other text under State do not
\* resolve; the abbreviation under st, the last key, does
C15_Witness ==
  /\ call.op = "getRowStateName" /\ ret.done
  /\ Get(call.row, K.ADMARK_STATE) = Str(<<"z", "z">>)
  /\ Get(call.row, K.admark_state) = Num(44)
  /\ Get(call.row, K.State) = Str(<<" ">>)
  /\ Get(call.row, K.st) = Str(<<"t", "x">>)
  /\ ret.value = Str(L.Texas)

(***************************************************************************)
(* MarketSimulation: the math helpers                                      *)
(***************************************************************************)
\* Math.min and Math.max of two doubles
MathMin(a, b) == IF a.nan \/ b.nan THEN FNaN ELSE IF FLess(b, a) THEN b ELSE a
MathMax(a, b) == IF a.nan \/ b.nan THEN FNaN ELSE IF FLess(a, b) THEN b ELSE a

\* only the lower bound is applied
clamp_LowerBoundOnly(v, lo, hi) == MathMax(lo, IF FIsFinite(v) THEN v ELSE lo)

clamp(v, lo, hi) == MathMin(hi, MathMax(lo, IF FIsFinite(v) THEN v ELSE lo))

\* the bits after the binary point of log2(f), 1 <= f < 2, most significant
\* first, by repeated squaring
RECURSIVE Log2Bits(_, _, _)
Log2Bits(f, i, acc) ==
  IF i = 0 THEN acc
  ELSE LET Step(sq) ==
             IF sq.e + MantBits >= 2
             THEN Log2Bits([sq EXCEPT !.e = @ - 1], i - 1, 2 * acc + 1)
             ELSE Log2Bits(sq, i - 1, 2 * acc)
       IN Step(FMul(f, f))

\* log2(x) of a positive double
MathLog2(x) ==
  FAdd(FromInt(x.e + MantBits - 1),
       FRound(1, Log2Bits([x EXCEPT !.sg = 1, !.e = 1 - MantBits], MantBits, 0),
              0 - MantBits, FALSE))

\* Math.floor of a double, as an integer
MathFloor(z) ==
  IF z.m = 0 THEN 0
  ELSE IF z.e >= 0 THEN z.sg * z.m * Pow2(z.e)
  ELSE IF 0 - z.e >= MantBits THEN (IF z.sg = 1 THEN 0 ELSE -1)
  ELSE LET Signed(q, exact) ==
             IF z.sg = 1 THEN q ELSE IF exact THEN 0 - q ELSE 0 - q - 1
       IN Signed(z.m \div Pow2(0 - z.e), z.m % Pow2(0 - z.e) = 0)

\* 1 + w + w^2/2! + ... : e^w, the terms up to the one below the last bit
RECURSIVE ExpSeries(_, _, _, _)
ExpSeries(w, n, term, sum) ==
  IF n > MantBits \div 2 + 2 THEN sum
  ELSE LET Next_(t) == ExpSeries(w, n + 1, t, FAdd(sum, t))
       IN Next_(FDiv(FMul(term, w), FromInt(n)))

\* Math.pow(x, y) for the bases of the program, which are quotients of
\* positive doubles: 2^(y * log2(x)), the whole part of the exponent moved
\* into the exponent of the result; pow(x, 0) and pow(1, y) are 1 exactly.
\* (ECMAScript leaves the last bits of Math.pow to the implementation.)
MathPow[x \in Doubles, y \in Doubles] ==
  IF y.nan THEN FNaN
  ELSE IF y.m = 0 THEN FromInt(1)
  ELSE IF x.nan \/ x.m = 0 \/ x.sg = -1 THEN FNaN
  ELSE LET Scaled(v, k) == [v EXCEPT !.e = @ + k]
           Exp2(z, k) ==
             Scaled(ExpSeries(FMul(FSub(z, FromInt(k)), Dec[693147, -6]),
                              1, FromInt(1), FromInt(1)), k)
           OfExponent(z) == Exp2(z, MathFloor(z))
       IN OfExponent(FMul(y, MathLog2(x)))

\* the longest prefix of s made of decimal digits
RECURSIVE DigitPrefix(_)
DigitPrefix(s) ==
  IF s # <<>> /\ IsDigit(Head(s)) THEN <<Head(s)>> \o DigitPrefix(Tail(s)) ELSE <<>>

\* the double of a run of decimal digits, digit by digit
RECURSIVE DigitsToDouble(_, _)
DigitsToDouble(ds, acc) ==
  IF ds = <<>> THEN acc
  ELSE DigitsToDouble(Tail(ds), FAdd(FMul(acc, FromInt(10)), FromInt(DigitVal(Head(ds)))))

\* s from its n-th character on
Drop(s, n) == SubSeq(s, n + 1, Len(s))

\* parseFloat(v) on a string: leading white space, an optional sign, then
\* Infinity or decimal digits with an optional fraction and an optional
\* exponent; what follows the longest such prefix is ignored. The result is
\* a number, NaN when there is no such prefix, or an infinity (Infinity
\* itself, or a literal of 2^1024 and more); a literal below the smallest
\* double is 0.
parseFloat(v) ==
  LET Result(sg, mant, p) ==
        LET Sized(val) ==
              IF val.m # 0 /\ val.e + MantBits > 1024 THEN [kind |-> "inf", val |-> FNaN]
              ELSE IF val.m # 0 /\ val.e + MantBits < -1073 THEN [kind |-> "num", val |-> FZero]
              ELSE [kind |-> "num", val |-> IF sg = -1 THEN FNeg(val) ELSE val]
        IN IF mant.m = 0 THEN [kind |-> "num", val |-> FZero]
           ELSE IF p > 400 THEN [kind |-> "inf", val |-> FNaN]
           ELSE IF p < -400 THEN [kind |-> "num", val |-> FZero]
           ELSE Sized(IF p >= 0 THEN FMul(mant, Pow10(p)) ELSE FDiv(mant, Pow10(0 - p)))
      \* the exponent part at the head of s, 0 when there is none
      ExpOf(s) ==
        LET Signed(sg, ds) ==
              IF ds = <<>> THEN 0
              ELSE sg * (IF Len(ds) > 3 THEN 9999 ELSE DigitsToNat(ds))
        IN IF s = <<>> \/ Head(s) \notin {"e", "E"} THEN 0
           ELSE IF Len(s) > 1 /\ s[2] = "-" THEN Signed(-1, DigitPrefix(Drop(s, 2)))
           ELSE IF Len(s) > 1 /\ s[2] = "+" THEN Signed(1, DigitPrefix(Drop(s, 2)))
           ELSE Signed(1, DigitPrefix(Tail(s)))
      WithFraction(sg, int, frac, rest) ==
        IF int = <<>> /\ frac = <<>> THEN [kind |-> "nan", val |-> FNaN]
        ELSE Result(sg, DigitsToDouble(int \o frac, FZero), ExpOf(rest) - Len(frac))
      AfterInt(sg, int, rest) ==
        IF rest # <<>> /\ Head(rest) = "."
        THEN WithFraction(sg, int, DigitPrefix(Tail(rest)),
                          Drop(rest, 1 + Len(DigitPrefix(Tail(rest)))))
        ELSE WithFraction(sg, int, <<>>, rest)
      Unsigned(sg, s) ==
        IF Len(s) >= 8 /\ SubSeq(s, 1, 8) = <<"I", "n", "f", "i", "n", "i", "t", "y">>
        THEN [kind |-> "inf", val |-> FNaN]
        ELSE AfterInt(sg, DigitPrefix(s), Drop(s, Len(DigitPrefix(s))))
      Trimmed(s) ==
        IF s # <<>> /\ Head(s) = "-" THEN Unsigned(-1, Tail(s))
        ELSE IF s # <<>> /\ Head(s) = "+" THEN Unsigned(1, Tail(s))
        ELSE Unsigned(1, s)
  IN Trimmed(TrimLeft(v))

toNumberSafe(v) ==
  LET Safe(n) == IF n.kind = "num" THEN n.val ELSE FZero
  IN Safe(parseFloat(v))

\* the quotient is taken whatever the revenue
MarginPct_Unguarded(revenue, profit) == FDiv(profit, revenue)

\* const margin_pct = revenue > 0 ? profit / revenue : 0
MarginPct(revenue, profit) ==
  IF FGreater(revenue, FZero) THEN FDiv(profit, revenue) ELSE FZero

\* compute everything from the current state
deriveAll(s) ==
  LET Kpis(demand, revenue, var_cost_total, total_cost, profit) ==
        [price |-> s.price, demand |-> demand, revenue |-> revenue,
         total_cost |-> total_cost, var_cost_total |-> var_cost_total,
         profit |-> profit,
         margin_pct |-> MarginPct(revenue, profit),
         unit_margin |-> FSub(s.price, s.vcpu)]
      Costs(demand, revenue, var_cost_total, total_cost) ==
        Kpis(demand, revenue, var_cost_total, total_cost, FSub(revenue, total_cost))
      Sales(demand, revenue, var_cost_total) ==
        Costs(demand, revenue, var_cost_total, FAdd(s.fixed_cost, var_cost_total))
      OfDemand(demand) == Sales(demand, FMul(s.price, demand), FMul(s.vcpu, demand))
  IN OfDemand(FMul(s.base_demand, MathPow[FDiv(s.price, s.base_price), s.elasticity]))

\* invert elasticity equation to find price given demand
invertElasticityForPrice(demand, base_demand, base_price, elasticity) ==
  LET OfRatio(ratio, inv) ==
        clamp(FMul(base_price, MathPow[ratio, inv]), Dec[1, -2], Dec[1, 6])
  IN OfRatio(clamp(FDiv(demand, base_demand), Dec[1, -12], Dec[1, 12]),
             FDiv(FromInt(1), elasticity))

\* the functions f handed to bisectPrice by the solvers, each with the
\* values it closes over (vcpu and fixed_cost are not used by the first)
SolverFunctions ==
  [kind : {"revenue", "profit", "margin"}, target : Doubles, base_demand : Doubles,
   base_price : Doubles, elasticity : Doubles, vcpu : Doubles, fixed_cost : Doubles]

\* f(p)
ApplyF[f \in SolverFunctions, p \in Doubles] ==
  LET OfTotals(revenue, total_cost) ==
        IF f.kind = "profit" THEN FSub(FSub(revenue, total_cost), f.target)
        ELSE LET OfProfit(profit) ==
                   FSub(IF FGreater(revenue, FZero) THEN FDiv(profit, revenue)
                        ELSE FromInt(-1), f.target)
             IN OfProfit(FSub(revenue, total_cost))
      OfDemand(d) == OfTotals(FMul(p, d), FAdd(f.fixed_cost, FMul(f.vcpu, d)))
      OfPow(pw) ==
        IF f.kind = "revenue" THEN FSub(FMul(FMul(p, f.base_demand), pw), f.target)
        ELSE OfDemand(FMul(f.base_demand, pw))
  IN OfPow(MathPow[FDiv(p, f.base_price), f.elasticity])

\* fa * fb > 0: the ends of the bracket have the same sign
SameSign(fa, fb) == FGreater(FMul(fa, fb), FZero)

\* bisectPrice(f, lo, hi, iters) at its entry: a, b, fa, fb and expand set,
\* the widening loop about to be tested
bisectPrice(f, lo, hi, iters) ==
  [pc |-> "expand", f |-> f, a |-> lo, b |-> hi, fa |-> ApplyF[f, lo],
   fb |-> ApplyF[f, hi], expand |-> 0, i |-> 0, iters |-> iters]

\* solve for price that achieves target revenue: the call of bisectPrice
\* whose result it returns
solvePriceForRevenue(targetRevenue, base_demand, base_price, elasticity) ==
  [f |-> [kind |-> "revenue", target |-> targetRevenue, base_demand |-> base_demand,
          base_price |-> base_price, elasticity |-> elasticity,
          vcpu |-> FZero, fixed_cost |-> FZero],
   lo |-> Dec[1, -2], hi |-> FMul(base_price, FromInt(100)), iters |-> 60]

\* solve for price that achieves target profit
solvePriceForProfit(targetProfit, base_demand, base_price, elasticity, vcpu, fixed_cost) ==
  [f |-> [kind |-> "profit", target |-> targetProfit, base_demand |-> base_demand,
          base_price |-> base_price, elasticity |-> elasticity,
          vcpu |-> vcpu, fixed_cost |-> fixed_cost],
   lo |-> Dec[1, -2], hi |-> FMul(base_price, FromInt(100)), iters |-> 60]

\* solve for price that achieves target margin (profit / revenue)
solvePriceForMargin(targetMargin, base_demand, base_price, elasticity, vcpu, fixed_cost) ==
  [f |-> [kind |-> "margin", target |-> clamp(targetMargin, FromInt(-5), FromInt(5)),
          base_demand |-> base_demand, base_price |-> base_price,
          elasticity |-> elasticity, vcpu |-> vcpu, fixed_cost |-> fixed_cost],
   lo |-> Dec[1, -2], hi |-> FMul(base_price, FromInt(200)), iters |-> 70]

\* the price is handed on as it is
FinalPrice_Unclamped(v) == v

\* clamp(..., 0.01, 1e6) at every return of a price
FinalPrice(v) == clamp(v, Dec[1, -2], Dec[1, 6])

(***************************************************************************)
(* MarketSimulation: bisectPrice, one turn of a loop at a time, and the    *)
(* handlers. A handler runs to completion: while a search is in progress   *)
(* no other handler starts.                                                *)
(***************************************************************************)
\* the solved price is stored as the base price as well
Return_MovesBasePrice(v) ==
  /\ ret' = Ret(v)
  /\ frame' = NoFrame
  /\ state' = IF call.op = "handleEdit"
              THEN [state EXCEPT !.price = v, !.base_price = v] ELSE state
  /\ UNCHANGED <<uiVars, view, call>>

\* return v from bisectPrice; in handleEdit the price becomes next.price
\* and setState(next) follows
Return(v) ==
  /\ ret' = Ret(v)
  /\ frame' = NoFrame
  /\ state' = IF call.op = "handleEdit" THEN [state EXCEPT !.price = v] ELSE state
  /\ UNCHANGED <<uiVars, view, call>>

\* the widening loop allowed an eleventh turn
bisectPrice_Expand_ElevenTurns ==
  /\ frame.pc = "expand"
  /\ SameSign(frame.fa, frame.fb) /\ frame.expand < 11
  /\ \E a \in {MathMax(Dec[1, -2], FDiv(frame.a, FromInt(2)))},
        b \in {FMul(frame.b, FromInt(2))} :
       frame' = [frame EXCEPT !.a = a, !.b = b, !.fa = ApplyF[frame.f, a],
                              !.fb = ApplyF[frame.f, b], !.expand = @ + 1]
  /\ UNCHANGED <<uiVars, view, fnVars, state>>

\* while (fa * fb > 0 && expand < 10) { ... }
bisectPrice_Expand ==
  /\ frame.pc = "expand"
  /\ SameSign(frame.fa, frame.fb) /\ frame.expand < 10
  /\ \E a \in {MathMax(Dec[1, -2], FDiv(frame.a, FromInt(2)))},
        b \in {FMul(frame.b, FromInt(2))} :
       frame' = [frame EXCEPT !.a = a, !.b = b, !.fa = ApplyF[frame.f, a],
                              !.fb = ApplyF[frame.f, b], !.expand = @ + 1]
  /\ UNCHANGED <<uiVars, view, fnVars, state>>

\* if (fa * fb > 0) return clamp((a + b) / 2, 0.01, 1e6), else on to the
\* bisection loop
bisectPrice_Bracket ==
  /\ frame.pc = "expand"
  /\ ~(SameSign(frame.fa, frame.fb) /\ frame.expand < 10)
  /\ IF SameSign(frame.fa, frame.fb)
     THEN Return(FinalPrice(FDiv(FAdd(frame.a, frame.b), FromInt(2))))
     ELSE /\ frame' = [frame EXCEPT !.pc = "bisect"]
          /\ UNCHANGED <<uiVars, view, fnVars, state>>

\* one turn of for (let i = 0; i < iters; i++) { ... }
bisectPrice_Turn ==
  /\ frame.pc = "bisect"
  /\ frame.i < frame.iters
  /\ \E mid \in {FMul(Dec[5, -1], FAdd(frame.a, frame.b))} :
       \E fm \in {ApplyF[frame.f, mid]} :
         IF FLess(FAbs(fm), Dec[1, -6]) THEN Return(FinalPrice(mid))
         ELSE /\ frame' = IF FLess(FMul(frame.fa, fm), FZero)
                          THEN [frame EXCEPT !.b = mid, !.fb = fm, !.i = @ + 1]
                          ELSE [frame EXCEPT !.a = mid, !.fa = fm, !.i = @ + 1]
              /\ UNCHANGED <<uiVars, view, fnVars, state>>

\* return clamp(0.5 * (a + b), 0.01, 1e6) after the last turn
bisectPrice_End ==
  /\ frame.pc = "bisect"
  /\ frame.i >= frame.iters
  /\ Return(FinalPrice(FMul(Dec[5, -1], FAdd(frame.a, frame.b))))

\* the strings of the field names
F ==
  [price |-> "price", elasticity |-> "elasticity", base_price |-> "base_price",
   base_demand |-> "base_demand", vcpu |-> "vcpu", fixed_cost |-> "fixed_cost",
   demand |-> "demand", revenue |-> "revenue", profit |-> "profit",
   margin_pct |-> "margin_pct"]

\* the independent variables of the scenario
StateFields ==
  {F.price, F.elasticity, F.base_price, F.base_demand, F.vcpu, F.fixed_cost}

\* the domain each independent variable is clamped to: <<lo, hi>>
FieldDomain(field) ==
  CASE field = F.price -> <<Dec[1, -2], Dec[1, 6]>>
    [] field = F.elasticity -> <<FromInt(-5), Dec[-5, -2]>>
    [] field = F.base_price -> <<Dec[1, -2], Dec[1, 6]>>
    [] field = F.base_demand -> <<FromInt(1), Dec[1, 9]>>
    [] field = F.vcpu -> <<FZero, Dec[1, 6]>>
    [] field = F.fixed_cost -> <<FZero, Dec[1, 12]>>

\* the number of handler calls made so far
Edits == IF call.op = "none" THEN 0 ELSE call.edits

\* the solver handleEdit calls for a derived metric solved by search
SearchFor(field, value, next) ==
  CASE field = F.revenue ->
         solvePriceForRevenue(clamp(value, FZero, Dec[1, 15]), next.base_demand,
                              next.base_price, next.elasticity)
    [] field = F.profit ->
         solvePriceForProfit(value, next.base_demand, next.base_price, next.elasticity,
                             next.vcpu, next.fixed_cost)
    [] field = F.margin_pct ->
         solvePriceForMargin(clamp(FDiv(value, FromInt(100)), FromInt(-10), FromInt(10)),
                             next.base_demand, next.base_price, next.elasticity,
                             next.vcpu, next.fixed_cost)

\* handleEdit(field, rawValue) up to setState(next), or up to the call of
\* bisectPrice when the field is solved by search
handleEdit(field, rawValue) ==
  \E value \in {toNumberSafe(rawValue)} :
    /\ frame = NoFrame
    /\ call' = [op |-> "handleEdit", field |-> field, edits |-> Edits + 1]
    /\ IF field \in StateFields
       THEN /\ state' = [state EXCEPT ![field] =
                           clamp(value, FieldDomain(field)[1], FieldDomain(field)[2])]
            /\ UNCHANGED <<ret, frame>>
       ELSE IF field = F.demand
       THEN /\ state' = [state EXCEPT !.price =
                           invertElasticityForPrice(clamp(value, FromInt(1), Dec[1, 12]),
                                                    state.base_demand, state.base_price,
                                                    state.elasticity)]
            /\ UNCHANGED <<ret, frame>>
       ELSE IF field \in {F.revenue, F.profit, F.margin_pct}
       THEN /\ \E c \in {SearchFor(field, value, state)} :
                 frame' = bisectPrice(c.f, c.lo, c.hi, c.iters)
            /\ ret' = NoRet
            /\ UNCHANGED state
       ELSE UNCHANGED <<state, ret, frame>>
    /\ UNCHANGED <<uiVars, view>>

\* the presets of resetScenario
Scenario(kind) ==
  CASE kind = "Baseline" ->
         [price |-> FromInt(50), base_price |-> FromInt(50), base_demand |-> FromInt(10000),
          elasticity |-> Dec[-12, -1], vcpu |-> FromInt(20), fixed_cost |-> FromInt(120000)]
    [] kind = "High FC / Low VC" ->
         [price |-> FromInt(50), base_price |-> FromInt(50), base_demand |-> FromInt(10000),
          elasticity |-> Dec[-10, -1], vcpu |-> FromInt(10), fixed_cost |-> FromInt(400000)]
    [] kind = "Premium Pricing" ->
         [price |-> FromInt(120), base_price |-> FromInt(80), base_demand |-> FromInt(7000),
          elasticity |-> Dec[-8, -1], vcpu |-> FromInt(25), fixed_cost |-> FromInt(180000)]

ScenarioKinds == {"Baseline", "High FC / Low VC", "Premium Pricing"}

resetScenario(kind) ==
  /\ frame = NoFrame
  /\ call' = [op |-> "resetScenario", kind |-> kind, edits |-> Edits + 1]
  /\ state' = IF kind \in ScenarioKinds THEN Scenario(kind) ELSE state
  /\ UNCHANGED <<uiVars, view, ret, frame>>

\* the handler calls of a behaviour
MaxEdits == 1

\* what may be typed into an input: nothing, text that is no number, zero,
\* a negative number, a huge number, and two ordinary numbers
RawValues ==
  { <<>>, <<"a", "b", "c">>, <<"0">>, <<"-", "3">>, <<"1", "e", "2", "0">>,
    <<"7", "5">>, <<"2", "0", "0", "0", "0", "0">> }

\* the field names handleEdit is called with, and one it does not know
FieldNames == {F[k] : k \in DOMAIN F} \cup {"other"}

InitMarket ==
  /\ Idle
  /\ call = NoCall

HandleEdit ==
  /\ Edits < MaxEdits
  /\ \E field \in FieldNames, rawValue \in RawValues : handleEdit(field, rawValue)

ResetScenario ==
  /\ Edits < MaxEdits
  /\ \E kind \in ScenarioKinds : resetScenario(kind)

SpecMarket ==
  InitMarket /\ [][HandleEdit \/ ResetScenario \/ bisectPrice_Expand \/ bisectPrice_Bracket
                   \/ bisectPrice_Turn \/ bisectPrice_End]_vars

\* the field of the scenario an edit of `field` may change: the field itself
\* for an independent variable, price for a derived KPI, none otherwise
EditTarget(field) ==
  IF field \in StateFields THEN field
  ELSE IF field \in {F.demand, F.revenue, F.profit, F.margin_pct} THEN F.price
  ELSE "none"

\* C17: from its call to its setState a handleEdit changes no field of the
\* scenario but one: the edited independent variable, or price when a derived
\* KPI is edited; for an unrecognised field name it changes none.
C17_HandleEditFrame ==
  [][call'.op = "handleEdit" =>
       \A k \in StateFields : state'[k] # state[k] => EditTarget(call'.field) = k]_vars

\* a profit edit of the initial scenario has run its search and set a new
\* price, the five other fields as they were
C17_Witness ==
  /\ call.op = "handleEdit" /\ call.field = F.profit /\ ret.done
  /\ state.price = ret.value
  /\ state.price # InitialScenario.price
  /\ state = [InitialScenario EXCEPT !.price = ret.value]

\* v is a number within [lo, hi]
Within(v, lo, hi) == FIsFinite(v) /\ ~FLess(v, lo) /\ ~FGreater(v, hi)

\* C18: in every state elasticity lies in [-5, -0.05] (so is negative), price
\* and base_price in [0.01, 1e6], base_demand in [1, 1e9], vcpu in [0, 1e6],
\* fixed_cost in [0, 1e12], and all six are finite.
C18_ClampedDomains ==
  /\ Within(state.elasticity, FromInt(-5), Dec[-5, -2])
  /\ FLess(state.elasticity, FZero)
  /\ Within(state.price, Dec[1, -2], Dec[1, 6])
  /\ Within(state.base_price, Dec[1, -2], Dec[1, 6])
  /\ Within(state.base_demand, FromInt(1), Dec[1, 9])
  /\ Within(state.vcpu, FZero, Dec[1, 6])
  /\ Within(state.fixed_cost, FZero, Dec[1, 12])

\* an elasticity edit with an input above the domain (0 from empty or
\* non-numeric text, a positive or a huge number) has left elasticity at -0.05
C18_Witness ==
  /\ call.op = "handleEdit" /\ call.field = F.elasticity
  /\ state.elasticity = Dec[-5, -2]

(***************************************************************************)
(* deriveAll applied on its own                                            *)
(***************************************************************************)
\* scenarios handed to deriveAll: the values of the presets, the ends of
\* the clamped domains, and a scenario without demand
DeriveScenarios ==
  [price : {FromInt(50), FromInt(60), Dec[1, -2], Dec[1, 6]},
   base_price : {FromInt(50), FromInt(80)},
   base_demand : {FZero, FromInt(1), FromInt(10000)},
   elasticity : {Dec[-12, -1], FromInt(-1), Dec[-5, -2], FromInt(-5)},
   vcpu : {FZero, FromInt(20)},
   fixed_cost : {FZero, FromInt(120000)}]

InitDerive ==
  /\ Idle
  /\ \E s \in DeriveScenarios : call = [op |-> "deriveAll", s |-> s]

CallDeriveAll ==
  /\ call.op = "deriveAll" /\ ~ret.done
  /\ ret' = Ret(deriveAll(call.s))
  /\ UNCHANGED <<uiVars, call, simVars>>

SpecDerive == InitDerive /\ [][CallDeriveAll]_vars

\* C16: the result of deriveAll has revenue = price * demand, total_cost =
\* fixed_cost + vcpu * demand, profit = revenue - total_cost, margin_pct =
\* profit / revenue when revenue > 0 and 0 otherwise, unit_margin = price -
\* vcpu, price as given, demand = base_demand when price = base_price, and
\* for the baseline scenario demand 10000, revenue 500000, total_cost
\* 320000, profit 180000 and margin_pct 0.36.
C16_DeriveAllIdentities ==
  (call.op = "deriveAll" /\ ret.done) =>
    LET s == call.s
        r == ret.value
    IN /\ r.price = s.price
       /\ r.revenue = FMul(s.price, r.demand)
       /\ r.var_cost_total = FMul(s.vcpu, r.demand)
       /\ r.total_cost = FAdd(s.fixed_cost, FMul(s.vcpu, r.demand))
       /\ r.profit = FSub(r.revenue, r.total_cost)
       /\ IF FGreater(r.revenue, FZero)
          THEN r.margin_pct = FDiv(r.profit, r.revenue)
          ELSE r.margin_pct = FZero
       /\ r.unit_margin = FSub(s.price, s.vcpu)
       /\ s.price = s.base_price => r.demand = s.base_demand
       /\ s = InitialScenario =>
            /\ r.demand = FromInt(10000)
            /\ r.revenue = FromInt(500000)
            /\ r.total_cost = FromInt(320000)
            /\ r.profit = FromInt(180000)
            /\ r.margin_pct = Dec[36, -2]

\* deriveAll has been applied to the baseline scenario: margin_pct 0.36
C16_Witness ==
  /\ call.op = "deriveAll" /\ ret.done
  /\ call.s = InitialScenario
  /\ ret.value.profit = FromInt(180000)
  /\ ret.value.margin_pct = Dec[36, -2]

(***************************************************************************)
(* The price solvers applied on their own                                  *)
(***************************************************************************)
\* scenarios inside the clamped domains: the presets, and the scenarios at
\* the lower and at the upper ends of the domains
SolveScenarios ==
  {Scenario(kind) : kind \in ScenarioKinds} \cup
  { [price |-> Dec[1, -2], base_price |-> Dec[1, -2], base_demand |-> FromInt(1),
     elasticity |-> FromInt(-5), vcpu |-> FZero, fixed_cost |-> FZero],
    [price |-> Dec[1, 6], base_price |-> Dec[1, 6], base_demand |-> Dec[1, 9],
     elasticity |-> Dec[-5, -2], vcpu |-> Dec[1, 6], fixed_cost |-> Dec[1, 12]] }

\* targets: zero, small (0.01 is the revenue and the profit of the first of
\* the two scenarios above at the price 0.01), negative, ordinary, huge, and NaN
SolveTargets ==
  {FZero, Dec[1, -2], FromInt(1), FromInt(-50000), FromInt(200000), Dec[1, 15], FNaN}

\* prices at which a profit target is read off the profit curve
AttainedPrices == {FromInt(30), FromInt(60)}

SolverNames == {"solvePriceForRevenue", "solvePriceForProfit", "solvePriceForMargin"}

\* the low and high ends of the bracket solvePriceForProfit searches first
ProfitBracket(s) == <<Dec[1, -2], FMul(s.base_price, FromInt(100))>>

InitSolve ==
  /\ Idle
  /\ \/ \E op \in SolverNames \cup {"invertElasticityForPrice"},
           s \in SolveScenarios, target \in SolveTargets :
          call = [op |-> op, s |-> s, target |-> target, attainedAt |-> FNaN]
     \/ \E s \in SolveScenarios, p \in AttainedPrices :
          /\ Within(p, ProfitBracket(s)[1], ProfitBracket(s)[2])
          /\ call = [op |-> "solvePriceForProfit", s |-> s,
                     target |-> deriveAll([s EXCEPT !.price = p]).profit,
                     attainedAt |-> p]

CallInvertElasticityForPrice ==
  /\ call.op = "invertElasticityForPrice" /\ ~ret.done
  /\ ret' = Ret(invertElasticityForPrice(call.target, call.s.base_demand,
                                         call.s.base_price, call.s.elasticity))
  /\ UNCHANGED <<uiVars, call, simVars>>

\* the solver named by the call, applied to its arguments
SolverCall(c) ==
  CASE c.op = "solvePriceForRevenue" ->
         solvePriceForRevenue(c.target, c.s.base_demand, c.s.base_price, c.s.elasticity)
    [] c.op = "solvePriceForProfit" ->
         solvePriceForProfit(c.target, c.s.base_demand, c.s.base_price, c.s.elasticity,
                             c.s.vcpu, c.s.fixed_cost)
    [] c.op = "solvePriceForMargin" ->
         solvePriceForMargin(c.target, c.s.base_demand, c.s.base_price, c.s.elasticity,
                             c.s.vcpu, c.s.fixed_cost)

CallSolver ==
  /\ call.op \in SolverNames /\ ~ret.done /\ frame = NoFrame
  /\ \E c \in {SolverCall(call)} : frame' = bisectPrice(c.f, c.lo, c.hi, c.iters)
  /\ UNCHANGED <<uiVars, view, fnVars, state>>

SpecSolve ==
  InitSolve /\ [][CallInvertElasticityForPrice \/ CallSolver \/ bisectPrice_Expand
                  \/ bisectPrice_Bracket \/ bisectPrice_Turn \/ bisectPrice_End]_vars

\* C19: every price returned by invertElasticityForPrice, solvePriceForRevenue,
\* solvePriceForProfit and solvePriceForMargin is a finite number within
\* [0.01, 1e6], whatever the target and the scenario and however bisectPrice
\* ends.
C19_SolvedPriceInRange ==
  ret.done => Within(ret.value, Dec[1, -2], Dec[1, 6])

\* solvePriceForProfit has returned for a target no price of the widened
\* bracket brackets: the midpoint, brought down to 1e6
C19_Witness ==
  /\ call.op = "solvePriceForProfit" /\ ret.done
  /\ call.s = InitialScenario /\ call.target = Dec[1, 15]
  /\ ret.value = Dec[1, 6]

\* C20: when the target profit is the profit at a price inside the first
\* bracket [0.01, base_price * 100], the profit deriveAll computes at the
\* price solvePriceForProfit returns is within 1e-3 of the target.
C20_ProfitTargetHit ==
  (call.op = "solvePriceForProfit" /\ ret.done /\ ~call.attainedAt.nan) =>
    FLess(FAbs(FSub(deriveAll([call.s EXCEPT !.price = ret.value]).profit, call.target)),
          Dec[1, -3])

(***************************************************************************)
(* invertElasticityForPrice after deriveAll: the demand at a price, turned *)
(* back into a price                                                       *)
(***************************************************************************)
\* scenarios of the round trip: base prices and elasticities over the
\* clamped domains of handleEdit, with the demand and costs of the baseline
RoundScenarios ==
  { [InitialScenario EXCEPT !.price = price, !.base_price = base_price,
                            !.elasticity = elasticity] :
      price \in {Dec[1, -2], FromInt(1), FromInt(60), FromInt(12500), Dec[5, 4], Dec[1, 6]},
      base_price \in {Dec[1, -2], FromInt(50), FromInt(80), Dec[1, 6]},
      elasticity \in {FromInt(-5), Dec[-12, -1], FromInt(-1), Dec[-5, -2]} }

InitRound ==
  /\ Idle
  /\ \E s \in RoundScenarios : call = [op |-> "roundTrip", s |-> s]

\* invertElasticityForPrice(deriveAll(s).demand, ...)
CallRoundTrip ==
  /\ call.op = "roundTrip" /\ ~ret.done
  /\ \E d \in {deriveAll(call.s).demand} :
       ret' = Ret(invertElasticityForPrice(d, call.s.base_demand, call.s.base_price,
                                           call.s.elasticity))
  /\ UNCHANGED <<uiVars, call, simVars>>

SpecRound == InitRound /\ [][CallRoundTrip]_vars

\* a is b up to a relative error of 1e-3, the tolerance of arithmetic with
\* MantBits bits carried through two powers
Near(a, b) == ~FGreater(FAbs(FSub(a, b)), FMul(Dec[1, -3], FAbs(b)))

\* C21: for every scenario in the clamped domains and every price P in
\* [0.01, 1e6], invertElasticityForPrice applied to the demand deriveAll
\* computes at P gives P back within floating tolerance.
C21_RoundTrip ==
  (call.op = "roundTrip" /\ ret.done) => Near(ret.value, call.s.price)

(***************************************************************************)
(* bisectPrice: the bounds of its two loops                                *)
(***************************************************************************)
\* the turns a call in progress can still take: widenings left, the test
\* after the widening loop, bisection turns left
TurnsLeft(fr) ==
  (10 - fr.expand) + (fr.iters - fr.i) + (IF fr.pc = "expand" THEN 1 ELSE 0)

\* the counters of a call in progress are within their limits, no bisection
\* turn is taken before the widening loop is left, and the lower end of the
\* bracket is never below 0.01
C22_Bounded ==
  frame # NoFrame =>
    /\ frame.expand \in 0..10
    /\ frame.i \in 0..frame.iters
    /\ frame.pc = "expand" => frame.i = 0
    /\ ~FLess(frame.a, Dec[1, -2])

\* what one step of a call in progress does
C22_Step ==
  (frame # NoFrame /\ frame' # frame) =>
    /\ frame' = NoFrame \/ TurnsLeft(frame') < TurnsLeft(frame)
    /\ frame' = NoFrame => ret'.done
    /\ (frame' # NoFrame /\ frame'.pc = "expand") =>
         /\ frame'.expand = frame.expand + 1
         /\ frame'.a = MathMax(Dec[1, -2], FDiv(frame.a, FromInt(2)))
         /\ frame'.b = FMul(frame.b, FromInt(2))
    /\ (frame.pc = "bisect" /\ frame' # NoFrame) =>
         frame'.pc = "bisect" /\ frame'.i = frame.i + 1
    /\ (frame.pc = "expand" /\ SameSign(frame.fa, frame.fb) /\ frame.expand = 10) =>
         /\ frame' = NoFrame
         /\ ret'.value = clamp(FDiv(FAdd(frame.a, frame.b), FromInt(2)),
                               Dec[1, -2], Dec[1, 6])
    /\ (frame.pc = "expand" /\ frame' = NoFrame) =>
         SameSign(frame.fa, frame.fb) /\ frame.expand = 10 /\ frame.i = 0

\* C22: bisectPrice always terminates, after at most 10 widenings of the
\* bracket (each halves the lower end, never below 0.01, and doubles the upper
\* end) and at most iters bisection turns: every step of a call in progress
\* returns or leaves fewer turns to take, and the turns left are never
\* negative. When f(a) * f(b) > 0 still holds after the widenings it returns
\* the clamped midpoint of the widened bracket without a bisection turn.
C22_BisectTerminates ==
  /\ []C22_Bounded
  /\ [][C22_Step]_vars

\* the tenth widening has been made, the lower end held at 0.01, and the ends
\* still have the same sign: the midpoint is about to be returned
C22_Witness ==
  /\ frame # NoFrame /\ frame.pc = "expand" /\ frame.expand = 10
  /\ SameSign(frame.fa, frame.fb)
  /\ frame.a = Dec[1, -2]

\* f(a) * f(b) <= 0
Bracketed(fr) ==
  \E prod \in {FMul(fr.fa, fr.fb)} : FLess(prod, FZero) \/ FEq(prod, FZero)

\* b - a
Width(fr) == FSub(fr.b, fr.a)

\* the interval of fr1 is half as wide as that of fr0, up to the rounding of
\* the midpoint (an error of 1e-3 relative to the upper end at MantBits bits)
HalfAsWide(fr1, fr0) ==
  ~FGreater(FAbs(FSub(Width(fr1), FDiv(Width(fr0), FromInt(2)))),
            FMul(Dec[1, -3], FAbs(fr0.b)))

\* C23: once the bisection loop is entered with f(a) * f(b) <= 0, every turn
\* that updates a or b leaves f(a) * f(b) <= 0 and an interval half as wide
\* as before (up to the rounding of the arithmetic), also when f is exactly
\* zero at an end of the interval.
C23_BracketKept ==
  [][(/\ frame # NoFrame /\ frame.pc = "bisect"
      /\ frame' # NoFrame /\ frame' # frame
      /\ Bracketed(frame))
     => /\ Bracketed(frame')
        /\ HalfAsWide(frame', frame)]_vars

(***************************************************************************)
(* rows: the alias under which a record's model is found                   *)
(***************************************************************************)
\* the fields a model is looked up under, in order
ModelAliases == <<K.model, K.BLD_DESC_RV_MODEL, K.Model, K.model_name, K.MODEL>>

\* the value is present and is not the empty string
IsNonEmpty(v) == ~IsNullish(v) /\ String(v) # <<>>

\* the first non-empty value among the aliases, Null when there is none
FirstNonEmptyModel(r) ==
  LET FirstOf(vals) ==
        IF \E i \in DOMAIN vals : IsNonEmpty(vals[i])
        THEN vals[CHOOSE i \in DOMAIN vals :
                    /\ IsNonEmpty(vals[i])
                    /\ \A j \in 1..(i - 1) : ~IsNonEmpty(vals[j])]
        ELSE Null
  IN FirstOf([i \in DOMAIN ModelAliases |-> Get(r, ModelAliases[i])])

\* the record has a non-empty model under some alias and finite coordinates
AdmittedByAlias(r) ==
  /\ IsNonEmpty(FirstNonEmptyModel(r))
  /\ NumberIsFinite(Number(Get(r, K.emb_x)))
  /\ NumberIsFinite(Number(Get(r, K.emb_y)))
  /\ NumberIsFinite(Number(Get(r, K.cluster)))

\* the normalized record, its model the first non-empty alias
NormalizedByAlias(r) ==
  [NormalizedRow(r) EXCEPT ![K.model] = Str(String(FirstNonEmptyModel(r)))]

\* C24: the normalizer resolves a record's model as the first non-empty value
\* among model, BLD_DESC_RV_MODEL, Model, model_name, MODEL in that order: a
\* record whose earlier alias is an empty string and whose later alias holds a
\* non-empty name is admitted under the later name.
C24_FirstNonEmptyAliasWins ==
  (call.op = "rows" /\ ret.done) =>
    ret.value = MapSeq(SelectSeq(call.dataPoints, AdmittedByAlias), NormalizedByAlias)

(***************************************************************************)
(* demoSummary: the order of the items of a categorical section            *)
(***************************************************************************)
\* the counts of the items never rise from one item to the next
DescendingCounts(items) ==
  \A i, j \in DOMAIN items : i < j => items[i].count >= items[j].count

\* C25 as stated: the items of a categorical section, the 'Unknown' item
\* included, are in descending order of count (and the drift correction goes
\* to the last item of that order).
C25_ItemsDescendingByCount ==
  \A sec \in CategoricalSections : DescendingCounts(sec.items)

\* C25, amended: the items counted from present values are in descending
\* order of count, the item of the missing rows comes after them whatever its
\* count, and every pct, that of the last item included, is count / total *
\* 100: the sum is never more than 0.1 away from 100, so the correction, which
\* would go to the last item of the list, changes nothing.
C25_PresentDescendingUnknownLast ==
  \A sec \in CategoricalSections :
    LET OfMissing(missing, n) ==
          /\ DescendingCounts(SubSeq(sec.items, 1, IF missing > 0 THEN n - 1 ELSE n))
          /\ missing > 0 =>
               /\ n > 0
               /\ sec.items[n].label = Str(L.Unknown)
               /\ sec.items[n].count = missing
          /\ \A i \in 1..n : sec.items[i].pct = Percent[sec.items[i].count, sec.total]
    IN OfMissing(MissingRows(call.srcAll, sec.field), Len(sec.items))

\* a section of three rows, one with a present value and two missing: the
\* item of the missing rows is last although its count is the larger
C25_Witness ==
  \E sec \in CategoricalSections :
    /\ Len(sec.items) = 2 /\ sec.total = 3
    /\ sec.items[1].count = 1
    /\ sec.items[2].label = Str(L.Unknown) /\ sec.items[2].count = 2

(***************************************************************************)
(* CustomerGroups: what the effects leave behind                           *)
(***************************************************************************)
\* the three lock flags
Locks == <<attLocked, priceLocked, mapLocked>>

\* the four view states hold the values the datasetMode effect resets them to
ViewReset ==
  /\ zoomCluster = Null
  /\ centerT = 0
  /\ selectedStateName = Null
  /\ demoModel = Null

\* C26: whenever datasetMode changes, once the resulting effects have run,
\* zoomCluster is null, centerT is 0, selectedStateName is null and demoModel
\* is null, whatever they were, and the three lock flags are as they were. As
\* steps: a change of datasetMode leaves the locks alone and an effect
\* pending; while an effect is pending no step moves the locks; the effects
\* are settled only after the step that takes note of the new datasetMode,
\* which leaves the four values reset; and from a reset state with an effect
\* pending no step leaves the reset state.
C26_DatasetSwitchResetsView ==
  [][/\ datasetMode' # datasetMode =>
          /\ seen'.datasetMode # datasetMode' /\ ~Settled'
          /\ Locks' = Locks
     /\ ~Settled => Locks' = Locks /\ datasetMode' = datasetMode
     /\ (seen.datasetMode # datasetMode /\ seen'.datasetMode = datasetMode') => ViewReset'
     /\ (~Settled /\ seen.datasetMode = datasetMode /\ ViewReset) => ViewReset']_vars

\* the effects have settled after a switch to SEGMENTS made while a cluster,
\* a state and a model were selected, the slider was moved and the attitude
\* panel was locked
C26_Witness ==
  /\ datasetMode = "SEGMENTS" /\ Settled
  /\ ViewReset
  /\ attLocked

(***************************************************************************)
(* The zoomed cluster and the chosen model stay inside what is shown       *)
(***************************************************************************)
\* zoomCluster is null or the cluster of a row of baseByModel
ZoomCarried ==
  \/ zoomCluster = Null
  \/ \E i \in DOMAIN baseByModel : baseByModel[i][K.cluster] = zoomCluster

\* C27: once the effects of a render have run, zoomCluster is null or a
\* cluster id carried by a row of baseByModel, and the zoomed plotFrame is not
\* empty; a zoomCluster that no row of baseByModel carries is reset to null by
\* the step that follows.
C27_ZoomClusterNeverStale ==
  /\ [](Settled => /\ ZoomCarried
                   /\ zoomCluster # Null => plotFrame # <<>>)
  /\ [][~ZoomCarried => zoomCluster' = Null]_vars

\* a cluster is zoomed that the selected models have no row of, while rows of
\* other clusters are shown
C27_Witness ==
  /\ ~ZoomCarried
  /\ baseByModel # <<>>
  /\ seen.group = group /\ seen.datasetMode = datasetMode

\* demoModel is null or the model of a row of plotFrame
DemoInScope ==
  \/ demoModel = Null
  \/ \E i \in DOMAIN plotFrame : plotFrame[i][K.model] = demoModel

\* C28: once the effects of a render have run, demoModel is null or a model
\* of the current plotFrame; a demoModel that no row of plotFrame has is
\* reset to null by the step that follows.
C28_DemoModelInScope ==
  /\ [](Settled => DemoInScope)
  /\ [][~DemoInScope => demoModel' = Null]_vars

\* the chosen model is deselected or zoomed away from, in an unchanged data set
C28_Witness ==
  /\ ~DemoInScope
  /\ seen.group = group /\ seen.datasetMode = datasetMode

(***************************************************************************)
(* The state selected on the map                                           *)
(***************************************************************************)
\* the stateAgg memo of the component
stateAgg == StateAggOf(mapSourceRows)

\* C29: a step that changes selectedStateName (a state chosen or cleared on
\* the map, or the reset of the datasetMode effect) leaves plotFrame and
\* stateAgg as they were.
C29_StateSelectionLeavesPlotAndMap ==
  [][selectedStateName' # selectedStateName =>
       /\ plotFrame' = plotFrame
       /\ \A src \in {mapSourceRows'} : StateAggOf(src) = stateAgg]_vars

\* a state is selected that narrows scopeRows while the scatter and the map
\* still show rows of other states
C29_Witness ==
  /\ Settled
  /\ selectedStateName # Null
  /\ scopeRows # plotFrame
  /\ Len(stateAgg.counts) > 1

(***************************************************************************)
(* The segments market view: date range, hovered and selected month        *)
(***************************************************************************)
\* getRangeBounds(), and the rs and re of SegmentsLineChart
getRangeBounds ==
  LET rs == Max(0, Min(view.rangeStartIdx, LastMonthIdx))
  IN <<rs, Max(rs, Min(view.rangeEndIdx, LastMonthIdx))>>

\* the values applyMonthToInputs writes into the card of a selected key
MonthEdit(idx) ==
  [src |-> "month", from |-> Max(0, Min(idx, LastMonthIdx)),
   to |-> Max(0, Min(idx, LastMonthIdx))]

\* applyMonthToInputs(idx): the view after the call
applyMonthToInputs(idx) ==
  IF view.mode # "segments" THEN view
  ELSE [view EXCEPT
          !.edits = [k \in ViewKeys |->
                       IF Includes(view.selected, k) THEN MonthEdit(idx) ELSE view.edits[k]],
          !.selectedMonthIdx = Num(idx)]

\* setSelectedMonthIdx(null) when the new range s..e leaves the selected month out
ClearedOutside(s, e) ==
  IF view.selectedMonthIdx # Null
     /\ (view.selectedMonthIdx.n < s \/ view.selectedMonthIdx.n > e)
  THEN Null
  ELSE view.selectedMonthIdx

\* onChange of the start month select
StartSelectChange ==
  /\ view.mode = "segments"
  /\ \E s \in 0..LastMonthIdx :
       \E eIdx \in {Max(s, view.rangeEndIdx)} :
         view' = [view EXCEPT !.rangeStartIdx = s, !.rangeEndIdx = eIdx,
                              !.selectedMonthIdx = ClearedOutside(s, eIdx)]
  /\ UNCHANGED <<uiVars, fnVars, state, frame>>

\* onChange of the end month select
EndSelectChange ==
  /\ view.mode = "segments"
  /\ \E eIdx \in 0..LastMonthIdx :
       \E s \in {Min(view.rangeStartIdx, eIdx)} :
         view' = [view EXCEPT !.rangeStartIdx = s, !.rangeEndIdx = eIdx,
                              !.selectedMonthIdx = ClearedOutside(s, eIdx)]
  /\ UNCHANGED <<uiVars, fnVars, state, frame>>

\* onClick of Reset range
ResetRange ==
  /\ view.mode = "segments"
  /\ \E s \in {Max(0, HistStartIdx)} :
       \E e \in {Max(s, futureCutoffIdx)} :
         view' = [view EXCEPT !.rangeStartIdx = s, !.rangeEndIdx = e,
                              !.selectedMonthIdx = ClearedOutside(s, e)]
  /\ UNCHANGED <<uiVars, fnVars, state, frame>>

\* clearSelectedMonthToRange(), from the button shown while a month is selected
clearSelectedMonthToRange ==
  /\ view.mode = "segments"
  /\ view.selectedMonthIdx # Null
  /\ view' = [view EXCEPT
                !.edits = [k \in ViewKeys |->
                             IF Includes(view.selected, k)
                             THEN [src |-> "range", from |-> getRangeBounds[1],
                                   to |-> getRangeBounds[2]]
                             ELSE view.edits[k]],
                !.selectedMonthIdx = Null]
  /\ UNCHANGED <<uiVars, fnVars, state, frame>>

\* switchMode(nextMode); the chart is mounted in segments mode only, and its
\* hover starts at null when it is mounted
switchMode ==
  /\ \E nextMode \in ViewModes :
       view' = [view EXCEPT
                  !.mode = nextMode,
                  !.selected = <<FirstKey(nextMode)>>,
                  !.edits = NoEdits,
                  !.selectedMonthIdx = Null,
                  !.hoverI = IF view.mode = "segments" /\ nextMode = "segments"
                             THEN view.hoverI ELSE Null]
  /\ UNCHANGED <<uiVars, fnVars, state, frame>>

\* handleMove(e) of SegmentsLineChart: i = Math.round(rs + t * xMax), 0 <= t <= 1
handleMove ==
  /\ view.mode = "segments"
  /\ \E i \in getRangeBounds[1]..getRangeBounds[2] :
       view' = [view EXCEPT
                  !.hoverI = IF i >= getRangeBounds[1] /\ i <= getRangeBounds[2]
                             THEN Num(i) ELSE Null]
  /\ UNCHANGED <<uiVars, fnVars, state, frame>>

\* handleLeave()
handleLeave ==
  /\ view.mode = "segments"
  /\ view' = [view EXCEPT !.hoverI = Null]
  /\ UNCHANGED <<uiVars, fnVars, state, frame>>

\* handleClick(): onSelectIndex(hoverI) when a month is hovered
handleClick ==
  /\ view.mode = "segments"
  /\ view.hoverI # Null
  /\ view' = applyMonthToInputs(view.hoverI.n)
  /\ UNCHANGED <<uiVars, fnVars, state, frame>>

InitView == Idle /\ call = NoCall

ViewNext ==
  \/ StartSelectChange
  \/ EndSelectChange
  \/ ResetRange
  \/ clearSelectedMonthToRange
  \/ switchMode
  \/ handleMove
  \/ handleLeave
  \/ handleClick

SpecView == InitView /\ [][ViewNext]_vars

\* the selected month lies in the date range
MonthInRange ==
  \/ view.selectedMonthIdx = Null
  \/ /\ view.rangeStartIdx <= view.selectedMonthIdx.n
     /\ view.selectedMonthIdx.n <= view.rangeEndIdx

\* C30: under every interleaving of chart hover, click, start and end range
\* selection, range reset, clear-month and mode switch,
\* 0 <= rangeStartIdx <= rangeEndIdx <= the last month index and
\* selectedMonthIdx is null or within the range; a change of the range that
\* leaves the selected month out clears it.
C30_RangeAndMonthConsistent ==
  /\ [](/\ 0 <= view.rangeStartIdx
        /\ view.rangeStartIdx <= view.rangeEndIdx
        /\ view.rangeEndIdx <= LastMonthIdx
        /\ MonthInRange)
  /\ [][(/\ <<view.rangeStartIdx, view.rangeEndIdx>>' #
              <<view.rangeStartIdx, view.rangeEndIdx>>
         /\ view.selectedMonthIdx # Null
         /\ \/ view.selectedMonthIdx.n < view.rangeStartIdx'
            \/ view.selectedMonthIdx.n > view.rangeEndIdx')
        => view.selectedMonthIdx' = Null]_vars

====
